---- MODULE Spec2Model ----
(***************************************************************************)
(* Include discovery of the sketch build pipeline                          *)
(* (legacy/builder/container_find_includes.go): the work queue of source   *)
(* files, the include cache ("journal") that is retraced and rewritten,    *)
(* and the build context's accumulating collections.  Several builds of    *)
(* the same build directory follow one another; between two builds the     *)
(* sketch may be edited and the journal file damaged.                      *)
(***************************************************************************)
EXTENDS Integers, Sequences, FiniteSets, TLC

\* Number of successive builds (runs of ContainerFindIncludes.Run) modelled.
MaxRuns == 3

-----------------------------------------------------------------------------
(* The file system and the libraries the resolver knows.                   *)

\* A nil *paths.Path: fmt prints it "<nil>", encoding/json writes it null.
NilPath == "<nil>"

CorePath == "hardware/cores/arduino"

VariantPath == "hardware/variants/standard"

\* The merged sketch file <build>/sketch/<main>.ino.cpp.
MergedFile == "sketch/S.ino.cpp"

NoLibrary == "<no library>"

\* A and B are plain libraries, P is fully precompiled and ships sources;
\* A2 is a newer copy of A, with one more header, that the user may install
\* in the sketchbook.
Libraries == {"A", "A2", "B", "P"}

Precompiled(library) == library = "P"

PrecompiledWithSources(library) == library = "P"

SourceDir(library) ==
    CASE library = "A" -> "libraries/A/src"
      [] library = "A2" -> "sketchbook/A/src"
      [] library = "B" -> "libraries/B/src"
      [] library = "P" -> "libraries/P/src"

\* Library.UtilityDir: B keeps private headers in a utility folder.
UtilityDir(library) ==
    IF library = "B" THEN "libraries/B/utility" ELSE NilPath

\* The source files FindFilesInFolder lists under a library's source dirs.
LibrarySourceFiles(library) ==
    CASE library = "A" -> <<"libraries/A/src/a.cpp">>
      [] library = "A2" -> <<"sketchbook/A/src/a.cpp">>
      [] library = "B" -> <<"libraries/B/src/b.cpp">>
      [] library = "P" -> <<"libraries/P/src/p.cpp">>

\* SourceFile.Origin: the sketch, or the library the file belongs to.
Origin(file) ==
    CASE file = "libraries/A/src/a.cpp" -> "A"
      [] file = "sketchbook/A/src/a.cpp" -> "A2"
      [] file = "libraries/B/src/b.cpp" -> "B"
      [] file = "libraries/P/src/p.cpp" -> "P"
      [] OTHER -> "sketch"

\* The headers a folder of the include path provides.
HeadersIn(folder) ==
    CASE folder = "libraries/A/src" -> {"A.h"}
      [] folder = "sketchbook/A/src" -> {"A.h", "U.h"}
      [] folder = "libraries/B/src" -> {"B.h"}
      [] folder = "libraries/B/utility" -> {"butil.h"}
      [] folder = "libraries/P/src" -> {"P.h"}
      [] OTHER -> {"Arduino.h"}

\* What a line of a source file asks of the preprocessor: a header to
\* include, or "#error": a line that fails for another reason.
OtherError == "#error"

\* The contents the merged sketch may have: its #include lines, in order.
\* N.h is provided by no library, U.h by the user's copy of A only.
SketchVersions ==
    { <<>>, <<"A.h">>, <<"A.h", "B.h">>, <<"P.h", "A.h">>, <<"N.h">>,
      <<"B.h", "N.h">>, <<"U.h">>, <<OtherError>> }

\* The #include lines of a library's source file.
LibraryFileIncludes(file) ==
    CASE file = "libraries/A/src/a.cpp" -> <<"B.h">>
      [] file = "sketchbook/A/src/a.cpp" -> <<>>
      [] file = "libraries/B/src/b.cpp" -> <<"butil.h">>
      [] file = "libraries/P/src/p.cpp" -> <<"B.h">>
      [] file = "sketch/t.cpp" -> <<"B.h">>

-----------------------------------------------------------------------------
(* includeCache: the journal in memory.  next is 0-based as in the code.   *)

includeCacheEntry(sourcefile, include, librarypath) ==
    [Sourcefile |-> sourcefile, Include |-> include, Includepath |-> librarypath]

\* includeCacheEntry.String: the three fields, formatted one after the other.
EntryString(entry) == <<entry.Sourcefile, entry.Include, entry.Includepath>>

\* Equals that leaves the resolved path out of the comparison.
EqualsIgnoringPath(entry, other) ==
    /\ entry.Sourcefile = other.Sourcefile
    /\ entry.Include = other.Include

Equals(entry, other) == EntryString(entry) = EntryString(other)

\* includeCache.Next: the entry at the cursor.
CacheNext(c) == c.entries[c.next + 1]

\* ExpectFile that looks at nothing.
ExpectFileUnchecked(c, sourcefile) == c

\* ExpectFile that assigns the flag from the comparison, whatever it was.
ExpectFileRevalidating(c, sourcefile) ==
    IF c.next >= Len(c.entries) \/ CacheNext(c).Sourcefile # sourcefile
    THEN [c EXCEPT !.valid = FALSE, !.entries = SubSeq(c.entries, 1, c.next)]
    ELSE [c EXCEPT !.valid = TRUE]

ExpectFile(c, sourcefile) ==
    IF c.valid /\ (c.next >= Len(c.entries) \/ CacheNext(c).Sourcefile # sourcefile)
    THEN [c EXCEPT !.valid = FALSE, !.entries = SubSeq(c.entries, 1, c.next)]
    ELSE c

\* ExpectEntry that invalidates without truncating at the cursor.
ExpectEntryKeepingRest(c, sourcefile, include, librarypath) ==
    LET entry == includeCacheEntry(sourcefile, include, librarypath)
        checked ==
            IF c.valid
            THEN IF c.next < Len(c.entries) /\ Equals(CacheNext(c), entry)
                 THEN [c EXCEPT !.next = c.next + 1]
                 ELSE [c EXCEPT !.valid = FALSE]
            ELSE c
    IN  IF ~checked.valid
        THEN [checked EXCEPT !.entries = Append(checked.entries, entry)]
        ELSE checked

ExpectEntry(c, sourcefile, include, librarypath) ==
    LET entry == includeCacheEntry(sourcefile, include, librarypath)
        checked ==
            IF c.valid
            THEN IF c.next < Len(c.entries) /\ Equals(CacheNext(c), entry)
                 THEN [c EXCEPT !.next = c.next + 1]
                 ELSE [c EXCEPT !.valid = FALSE,
                                !.entries = SubSeq(c.entries, 1, c.next)]
            ELSE c
    IN  IF ~checked.valid
        THEN [checked EXCEPT !.entries = Append(checked.entries, entry)]
        ELSE checked

\* ExpectEnd that leaves the entries behind the cursor.
ExpectEndKeepingRest(c) == c

ExpectEnd(c) ==
    IF c.valid /\ c.next < Len(c.entries)
    THEN [c EXCEPT !.valid = FALSE, !.entries = SubSeq(c.entries, 1, c.next)]
    ELSE c

\* The journal file includes.cache: absent, unreadable, or a list of entries.
AbsentFile == [state |-> "absent", entries |-> <<>>]

UnreadableFile == [state |-> "unreadable", entries |-> <<>>]

readCache(file) ==
    IF file.state = "ok"
    THEN [valid |-> TRUE, next |-> 0, entries |-> file.entries]
    ELSE [valid |-> FALSE, next |-> 0, entries |-> <<>>]

\* A writeCache that leaves the file alone whatever the cache holds.
writeCacheNever(c, file) == file

\* A valid cache only has the file's timestamps touched.
writeCache(c, file) ==
    IF c.valid THEN file ELSE [state |-> "ok", entries |-> c.entries]

\* The call writeCache makes on the journal file.
writeCacheCall(c) == IF c.valid THEN "Chtimes" ELSE "WriteFile"


\* A failure path that returns the error and leaves the file.
KeepCacheFile(file) == file

\* cachePath.Remove() after a failed findIncludesUntilDone.
RemoveCacheFile(file) == AbsentFile

-----------------------------------------------------------------------------
(* The work queue, the preprocessor and the library resolver.              *)

sliceContainsSourceFile(slice, target) ==
    \E i \in 1..Len(slice) : slice[i] = target

\* A Push that appends without looking at the queue.
PushAlways(q, value) == Append(q, value)

\* A Pop that returns the head and leaves it in the queue.
PopKeeping(q) == [x |-> Head(q), queue |-> q]

\* UniqueSourceFileQueue.Pop: the file returned and the queue left.
Pop(q) == [x |-> Head(q), queue |-> Tail(q)]

\* UniqueSourceFileQueue.Push
Push(q, value) ==
    IF ~sliceContainsSourceFile(q, value) THEN Append(q, value) ELSE q

RECURSIVE queueSourceFilesFromFolder(_, _)
queueSourceFilesFromFolder(q, filePaths) ==
    IF filePaths = <<>>
    THEN q
    ELSE queueSourceFilesFromFolder(Push(q, Head(filePaths)), Tail(filePaths))

Provided(header, includes) ==
    \E i \in 1..Len(includes) : header \in HeadersIn(includes[i])

\* The first line of a file the preprocessor stops at with the given include
\* path: NilPath when it stops at none.
RECURSIVE FirstFailingLine(_, _)
FirstFailingLine(lines, includes) ==
    IF lines = <<>>
    THEN NilPath
    ELSE IF Head(lines) = OtherError \/ ~Provided(Head(lines), includes)
         THEN Head(lines)
         ELSE FirstFailingLine(Tail(lines), includes)

\* One run of the preprocessor on a file's lines: success, or a non-zero
\* exit with its stderr.
PreprocResult(lines, includes) ==
    LET line == FirstFailingLine(lines, includes)
    IN  IF line = NilPath
        THEN [err |-> "nil", stderr |-> [kind |-> "empty"]]
        ELSE IF line = OtherError
             THEN [err |-> "exit", stderr |-> [kind |-> "other error"]]
             ELSE [err |-> "exit",
                   stderr |-> [kind |-> "No such file", header |-> line]]

\* The child process could not be run, or left no stderr.
SpawnFailure == [err |-> "other", stderr |-> [kind |-> "nil"]]

\* What GCCPreprocRunnerForDiscoveringIncludes may return.
GCCPreprocRunnerForDiscoveringIncludes(lines, includes) ==
    {PreprocResult(lines, includes), SpawnFailure}

\* The header name the regular expression captures from stderr, or "".
IncludesFinderWithRegExp(stderr) ==
    IF stderr.kind = "No such file" THEN stderr.header ELSE ""

-----------------------------------------------------------------------------
(* State.                                                                  *)

VARIABLES
    pc,                 \* where ContainerFindIncludes.Run stands
    runs,               \* builds started so far
    sketchIncludes,     \* the #include lines of the merged sketch
    hasVariant,         \* build.variant.path is set
    userLibrary,        \* the user's copy of library A is installed
    extraSource,        \* the sketch build folder holds sketch/t.cpp
    cacheFile,          \* <build>/includes.cache
    history,            \* what the journal file on disk comes from
    cache,              \* the includeCache of the running build
    includeFolders,     \* ctx.IncludeFolders
    importedLibraries,  \* ctx.ImportedLibraries
    queue,              \* ctx.CollectedSourceFiles
    sourceFile,         \* the file findIncludesUntilDone works on
    unchanged,          \* what ObjFileIsUpToDate said of it
    result,             \* how the last run ended
    replay,             \* this run repeats a clean successful run, nothing edited
    prevFile,           \* the journal file as this run found it
    ppLog,              \* the preprocessor runs of this run
    observedLog,        \* the entries this run passed to ExpectEntry
    sideEffects         \* the iteration that failed: where its include name
                        \* came from, its preprocessor runs, what it wrote to
                        \* os.Stderr; the last call on the journal file; and
                        \* the files the run has popped, in order

\* The build stages that follow discovery: the context they share.
VARIABLES
    stage,                          \* the operation that is running
    onlyUpdateCompilationDatabase,  \* ctx.OnlyUpdateCompilationDatabase
    codeModelBuilder,               \* ctx.CodeModelBuilder != nil
    compilationDatabaseOn,          \* ctx.CompilationDatabase != nil
    jobs,                           \* ctx.Jobs
    disk,                           \* the file system: path -> stat, mtime, rows
    diskBefore,                     \* the file system as the stage found it
    failing,                        \* the commands that exit non-zero
    cancelRequested,                \* the caller has asked to cancel the build
    executed                        \* the child commands run so far, in order

\* compileFilesWithRecipe and its callers.
VARIABLES
    cfPc,                   \* the recipe CompileFiles is at
    feeder,                 \* the feeding loop: position and index
    closed,                 \* close(queue) was called
    worker,                 \* the job runners
    objectFiles,            \* objectFiles of the running call
    errorsList,             \* errorsList of the running call
    objectFilesMux,         \* who holds objectFilesMux
    errorsMux,              \* who holds errorsMux
    compilationDatabase,    \* how often each source was recorded in it
    compiled,               \* how often the compile command was run on each source
    invocations,            \* libraryModel.Invocations
    collected,              \* the object files of the recipes done so far
    returned,               \* what CompileFiles returned
    sent,                   \* the sources handed to workers, and when
    unsortedSeen            \* a call ended with its object files out of order

VARIABLES
    upToDateResult,         \* what a call of ObjFileIsUpToDate was given and said
    archiveName,            \* two calls of GetCachedCoreArchiveFileName
    addPrototypes,          \* ContainerAddPrototypes: position, error and the
                            \* fields of the context it reads and writes
    queueLog                \* the calls made on a UniqueSourceFileQueue

\* RecipeByPrefixSuffixRunner.
VARIABLES
    buildProperties,        \* ctx.BuildProperties: keys and values in file order
    clones,                 \* the maps that Clone has made, by the place of the call
    unoptimize,             \* ctx.UnoptimizeSketch, ctx.UnoptimizeCore
    hookRunner              \* the runner: position, prefix, recipes, index, error

\* CoreBuilder, compileCore and ArchiveCompiledFiles.
VARIABLES
    clean,                  \* ctx.Clean
    coreBuildCachePath,     \* ctx.CoreBuildCachePath != nil
    core,                   \* compileCore: position and what it returned
    coreBuilds,             \* the builds of the core so far and what they returned
    archiver                \* ArchiveCompiledFiles: position, objects, index

discoveryVars ==
    <<pc, runs, sketchIncludes, hasVariant, userLibrary, extraSource, cacheFile,
      history, cache, includeFolders, importedLibraries, queue, sourceFile, unchanged, result,
      replay, prevFile, ppLog, observedLog, sideEffects>>

ctxVars ==
    <<stage, onlyUpdateCompilationDatabase, codeModelBuilder, compilationDatabaseOn,
      jobs, failing, diskBefore, cancelRequested>>

compileVars ==
    <<cfPc, feeder, closed, worker, objectFiles, errorsList, objectFilesMux,
      errorsMux, compilationDatabase, compiled, invocations, collected, returned,
      sent, unsortedSeen>>

hookVars == <<buildProperties, clones, unoptimize, hookRunner>>

coreVars == <<clean, coreBuildCachePath, core, coreBuilds, archiver>>

\* The functions that are called on their own.
callVars == <<upToDateResult, archiveName, addPrototypes, queueLog>>

buildVars ==
    <<ctxVars, disk, executed, compileVars, callVars, hookVars, coreVars>>

vars == <<discoveryVars, buildVars>>

\* The sources the later stages compile: those of the sketch build folder and
\* of the core.
SketchSources == {"sketch/a.cpp", "sketch/c.cpp", "sketch/d.cpp", "sketch/b.S"}

CoreSources == {"core/w.cpp", "core/x.cpp"}

AllSources == SketchSources \cup CoreSources

\* The job runners a call may spawn: ctx.Jobs of them, the host's CPUs when 0.
Workers == {1, 2}

NoSource == "<no source>"

WorkerOff == [pc |-> "off", source |-> NoSource, upToDate |-> FALSE, seen |-> <<>>]

\* No call of CompileFiles is running.
CompileIdle ==
    /\ cfPc = "idle"
    /\ feeder = [pc |-> "off", idx |-> 0]
    /\ closed = FALSE
    /\ worker = [w \in Workers |-> WorkerOff]
    /\ objectFiles = <<>>
    /\ errorsList = <<>>
    /\ objectFilesMux = 0
    /\ errorsMux = 0
    /\ compilationDatabase = [s \in AllSources |-> 0]
    /\ compiled = [s \in AllSources |-> 0]
    /\ invocations = <<>>
    /\ collected = <<>>
    /\ returned = [err |-> "none", objectFiles |-> <<>>]
    /\ sent = <<>>
    /\ unsortedSeen = FALSE

\* A map of properties is referred to by the place that made it: the map of
\* the context, and one map for each call of Clone.
CtxMap == <<"ctx.BuildProperties", 0>>

UnoptimizedMap == <<"RemoveOptimizationFromBuildProperties", 0>>

ExpandedMap == <<"ExpandSysprogsExtensionProperties", 0>>

JobMap(w) == <<"compileFileWithRecipe", w>>

ArchiverMap == <<"ArchiveCompiledFiles", 0>>

RunnerMap == <<"RecipeByPrefixSuffixRunner.Run", 1>>

RecipeMap == <<"RecipeByPrefixSuffixRunner.Run", 2>>

CTagsMap == <<"CTagsRunner.Run", 0>>

CloneMaps ==
    {UnoptimizedMap, ExpandedMap, ArchiverMap, RunnerMap, RecipeMap, CTagsMap}
        \cup {JobMap(w) : w \in Workers}

\* No clone was made yet.
NoClones == [m \in CloneMaps |-> <<>>]

\* No hook runner is running.
HookRunnerOff ==
    /\ hookRunner = [pc |-> "off", prefix |-> "", recipes |-> <<>>, idx |-> 0,
                     err |-> "none"]
    /\ clones = NoClones

HookIdle ==
    /\ buildProperties = <<>>
    /\ unoptimize = FALSE
    /\ HookRunnerOff

\* ArchiveCompiledFiles is not running.  While it runs, the files it found
\* and the number of commands run before it are kept.
ArchiverOff ==
    [pc |-> "off", objectFiles |-> <<>>, idx |-> 0, err |-> "none",
     found |-> <<>>, executedBefore |-> 0]

\* compileCore is not running.
CoreIdle ==
    /\ clean = FALSE
    /\ coreBuildCachePath = FALSE
    /\ core = [pc |-> "off", archiveFile |-> NilPath, err |-> "none"]
    /\ coreBuilds = [n |-> 0, archives |-> <<>>, compiledBefore |-> <<>>]
    /\ archiver = ArchiverOff

\* No function is called on its own.
NoName == [a |-> <<>>, b |-> <<>>, nameA |-> <<>>, nameB |-> <<>>]

\* ContainerAddPrototypes is not running.
NoPrototypes ==
    [pc |-> "off", err |-> "none", tags |-> <<>>, Source |-> <<>>,
     sourceBefore |-> <<>>, LineOffset |-> 0, CTagsOutput |-> <<>>,
     Prototypes |-> <<>>, PrototypesLineWhereToInsert |-> 0,
     PrototypesSection |-> <<>>]

\* No call was made on the queue.
NoQueueLog ==
    [appended |-> <<>>, popped |-> <<>>, call |-> "none", value |-> <<>>,
     before |-> <<>>]

CallsIdle ==
    /\ archiveName = NoName
    /\ addPrototypes = NoPrototypes
    /\ queueLog = NoQueueLog

\* Discovery runs on its own: no later stage is running.
BuildIdle ==
    /\ stage = "none"
    /\ cancelRequested = FALSE
    /\ onlyUpdateCompilationDatabase = FALSE
    /\ codeModelBuilder = FALSE
    /\ compilationDatabaseOn = FALSE
    /\ jobs = 0
    /\ disk = <<>>
    /\ diskBefore = <<>>
    /\ failing = {}
    /\ executed = <<>>
    /\ CompileIdle
    /\ HookIdle
    /\ CoreIdle
    /\ upToDateResult = [objectFile |-> NilPath, dependencyFile |-> NilPath,
                         result |-> "none"]
    /\ CallsIdle

\* The initial state of discovery; the state discovery is in while a later
\* stage is exercised.
\* Nothing was run, written to os.Stderr or done to the journal file.
NoEffects ==
    [fromCache |-> FALSE, preprocRuns |-> 0, stderr |-> <<>>, fileCall |-> "none",
     popped |-> <<>>]

DiscoveryIdle ==
    /\ pc = "idle"
    /\ runs = 0
    /\ userLibrary = FALSE
    /\ extraSource = TRUE
    /\ cacheFile = AbsentFile
    /\ history = "none"
    /\ cache = readCache(AbsentFile)
    /\ includeFolders = <<>>
    /\ importedLibraries = <<>>
    /\ queue = <<>>
    /\ sourceFile = NilPath
    /\ unchanged = FALSE
    /\ result = "none"
    /\ replay = FALSE
    /\ prevFile = AbsentFile
    /\ ppLog = {}
    /\ observedLog = <<>>
    /\ sideEffects = NoEffects

env == <<sketchIncludes, hasVariant, userLibrary, extraSource, history>>

\* The files of the sketch build folder with a source extension: the merged
\* sketch, found again by the listing, and one more source file if it is
\* there.
SketchFolderFiles ==
    IF extraSource THEN <<MergedFile, "sketch/t.cpp">> ELSE <<MergedFile>>

\* The libraries found under the configured search roots.
Installed == IF userLibrary THEN Libraries ELSE Libraries \ {"A2"}

\* Location priority: a library of the sketchbook wins over a bundled one.
LocationPriority(library) == IF library = "A2" THEN 2 ELSE 1

\* The library that provides a header, NoLibrary when none does.
ResolveLibrary(header) ==
    LET candidates == {l \in Installed : header \in HeadersIn(SourceDir(l))}
    IN  IF candidates = {}
        THEN NoLibrary
        ELSE CHOOSE l \in candidates :
                 \A m \in candidates : LocationPriority(m) <= LocationPriority(l)

FileIncludes(file) ==
    IF file = MergedFile THEN sketchIncludes ELSE LibraryFileIncludes(file)

Init ==
    /\ sketchIncludes \in SketchVersions
    /\ hasVariant \in BOOLEAN
    /\ DiscoveryIdle
    /\ BuildIdle


-----------------------------------------------------------------------------
(* ContainerFindIncludes.Run, step by step.                                *)

\* The folder is appended twice.
appendIncludeFolderTwice(folders, folder) == folders \o <<folder, folder>>

\* The result of append is dropped.
appendIncludeFolderDropped(folders, folder) == folders

\* The folder is put in front of the include path.
appendIncludeFolderAtFront(folders, folder) == <<folder>> \o folders

\* appendIncludeFolder: the folder goes to the end of the include path.
appendIncludeFolder(folders, folder) == Append(folders, folder)

\* The include name read from the journal instead of running the preprocessor.
CachedInclude(c) == CacheNext(c).Include

\* A fully precompiled library is recorded with an empty include path.
LibraryIncludePathEmptyIfPrecompiled(library) ==
    IF Precompiled(library) /\ PrecompiledWithSources(library)
    THEN ""
    ELSE SourceDir(library)

\* The folder an imported library adds to the include path and to the journal.
LibraryIncludePath(library) == SourceDir(library)

FullyPrecompiled(file) ==
    /\ Origin(file) \in Libraries
    /\ Precompiled(Origin(file))
    /\ PrecompiledWithSources(Origin(file))

\* The fully precompiled case goes round the loop instead of returning.
AfterExpectFileLooping(file) ==
    IF FullyPrecompiled(file) THEN "expectFile" ELSE "scan"

\* No fully precompiled case: every file is scanned.
AfterExpectFileNoSkip(file) == "scan"

\* Where findIncludesUntilDone goes after ExpectFile: a file of a fully
\* precompiled library makes it return, any other file is scanned.
AfterExpectFile(file) == IF FullyPrecompiled(file) THEN "loop" ELSE "scan"

\* A new build of the same build directory: a fresh context, the journal read.
StartRun ==
    /\ UNCHANGED buildVars
    /\ pc = "idle"
    /\ runs < MaxRuns
    /\ runs' = runs + 1
    /\ cache' = readCache(cacheFile)
    /\ prevFile' = cacheFile
    /\ replay' = (history = "clean ok")
    /\ pc' = "seedCore"
    /\ UNCHANGED <<env, cacheFile, includeFolders, importedLibraries, queue,
                   sourceFile, unchanged, result, ppLog, observedLog, sideEffects>>

\* appendIncludeFolder(ctx, cache, nil, "", build.core.path)
SeedCore ==
    /\ UNCHANGED buildVars
    /\ pc = "seedCore"
    /\ includeFolders' = appendIncludeFolder(includeFolders, CorePath)
    /\ cache' = ExpectEntry(cache, NilPath, "", CorePath)
    /\ observedLog' = Append(observedLog, includeCacheEntry(NilPath, "", CorePath))
    /\ pc' = "seedVariant"
    /\ UNCHANGED <<env, runs, cacheFile, importedLibraries, queue, sourceFile,
                   unchanged, result, replay, prevFile, ppLog, sideEffects>>

\* The variant folder when there is one, then the sketch's files are queued.
SeedVariant ==
    /\ UNCHANGED buildVars
    /\ pc = "seedVariant"
    /\ IF hasVariant
       THEN /\ includeFolders' = appendIncludeFolder(includeFolders, VariantPath)
            /\ cache' = ExpectEntry(cache, NilPath, "", VariantPath)
            /\ observedLog' =
                   Append(observedLog, includeCacheEntry(NilPath, "", VariantPath))
       ELSE UNCHANGED <<includeFolders, cache, observedLog>>
    /\ queue' = queueSourceFilesFromFolder(Push(queue, MergedFile), SketchFolderFiles)
    /\ pc' = "loop"
    /\ UNCHANGED <<env, runs, cacheFile, importedLibraries, sourceFile,
                   unchanged, result, replay, prevFile, ppLog, sideEffects>>

\* findIncludesUntilDone returned an error: the journal file is removed.
Fail(kind) ==
    /\ pc' = "failed"
    /\ result' = kind
    /\ cacheFile' = RemoveCacheFile(cacheFile)

\* The head of the loop with a file left: Pop, then ObjFileIsUpToDate on it.
PopSource ==
    /\ UNCHANGED buildVars
    /\ pc = "loop"
    /\ queue # <<>>
    /\ queue' = Pop(queue).queue
    /\ sourceFile' = Pop(queue).x
    /\ \E upToDate \in {"true", "false", "error"} :
          IF upToDate = "error"
          THEN /\ Fail("stat")
               /\ sideEffects' = [sideEffects EXCEPT
                                      !.fileCall = "Remove",
                                      !.popped = Append(@, Pop(queue).x)]
               /\ UNCHANGED unchanged
          ELSE /\ unchanged' = (upToDate = "true")
               /\ pc' = "expectFile"
               /\ sideEffects' = [sideEffects EXCEPT
                                      !.popped = Append(@, Pop(queue).x)]
               /\ UNCHANGED <<result, cacheFile>>
    /\ UNCHANGED <<env, runs, cache, includeFolders, importedLibraries, replay,
                   prevFile, ppLog, observedLog>>

\* The start of an iteration: ExpectFile, and the fully precompiled return.
ExpectFileStep ==
    /\ UNCHANGED buildVars
    /\ pc = "expectFile"
    /\ cache' = ExpectFile(cache, sourceFile)
    /\ pc' = AfterExpectFile(sourceFile)
    /\ UNCHANGED <<env, runs, cacheFile, includeFolders, importedLibraries,
                   queue, sourceFile, unchanged, result, replay, prevFile, ppLog,
                   observedLog, sideEffects>>

\* The include name comes from the journal: no preprocessor result.
FromCache == [err |-> "nil", stderr |-> [kind |-> "nil"]]

\* The preprocessor is asked whatever the journal holds.
AlwaysPreprocess(isUnchanged, c) == FALSE

\* unchanged && cache.valid: the include is taken from the journal.
UseCache(isUnchanged, c) == isUnchanged /\ c.valid

\* The error is reported without another run of the preprocessor.
NeverCameFromCache(preproc) == FALSE

\* preproc_err == nil || preproc_stderr == nil: the name came from the
\* journal.
CameFromCache(preproc) == preproc.err = "nil" \/ preproc.stderr.kind = "nil"

\* The rest of the iteration: the include name from the journal or from the
\* preprocessor, then the terminal entry, the unresolved include or the import.
Scan ==
    /\ UNCHANGED buildVars
    /\ pc = "scan"
    /\ LET includes ==
               IF /\ Origin(sourceFile) \in Libraries
                  /\ UtilityDir(Origin(sourceFile)) # NilPath
               THEN Append(includeFolders, UtilityDir(Origin(sourceFile)))
               ELSE includeFolders
           lines == FileIncludes(sourceFile)
           useCache == UseCache(unchanged, cache)
           runner == GCCPreprocRunnerForDiscoveringIncludes(lines, includes)
       IN  \E first \in (IF useCache THEN {FromCache} ELSE runner), again \in runner :
             LET include ==
                     IF useCache
                     THEN CachedInclude(cache)
                     ELSE IF first.err = "nil"
                          THEN ""
                          ELSE IncludesFinderWithRegExp(first.stderr)
                 library == ResolveLibrary(include)
                 rerun == CameFromCache(first)
                 ran == IF useCache THEN {} ELSE {[file |-> sourceFile, unchanged |-> unchanged]}
             IN  IF ~useCache /\ first.err = "other"
                 THEN \* neither success nor an exit error with stderr
                      /\ Fail("preprocessor")
                      /\ ppLog' = ppLog \cup ran
                      /\ sideEffects' = [sideEffects EXCEPT !.fileCall = "Remove"]
                      /\ UNCHANGED <<cache, includeFolders, importedLibraries,
                                     queue, observedLog>>
                 ELSE IF include = ""
                 THEN \* no missing include: the terminal entry
                      /\ cache' = ExpectEntry(cache, sourceFile, "", NilPath)
                      /\ observedLog' =
                             Append(observedLog, includeCacheEntry(sourceFile, "", NilPath))
                      /\ ppLog' = ppLog \cup ran
                      /\ pc' = "loop"
                      /\ UNCHANGED <<cacheFile, includeFolders, importedLibraries,
                                     queue, result, sideEffects>>
                 ELSE IF library = NoLibrary
                 THEN \* unresolved: the preprocessor is run again when the
                      \* name came from the journal, and its stderr goes
                      \* to os.Stderr unless that run succeeded
                      /\ Fail(IF rerun /\ again.err = "nil"
                              THEN "Internal error in cache"
                              ELSE IF rerun /\ again.err = "other"
                                   THEN "preprocessor"
                                   ELSE "unresolved include")
                      /\ ppLog' = ppLog \cup ran \cup
                             (IF rerun
                              THEN {[file |-> sourceFile, unchanged |-> unchanged]}
                              ELSE {})
                      /\ sideEffects' =
                             [sideEffects EXCEPT
                                 !.fromCache = useCache,
                                 !.preprocRuns = (IF useCache THEN 0 ELSE 1)
                                                   + (IF rerun THEN 1 ELSE 0),
                                 !.stderr = IF rerun
                                            THEN IF again.err = "nil"
                                                 THEN <<>>
                                                 ELSE <<again.stderr>>
                                            ELSE <<first.stderr>>,
                                 !.fileCall = "Remove"]
                      /\ UNCHANGED <<cache, includeFolders, importedLibraries,
                                     queue, observedLog>>
                 ELSE \* the library is imported and its sources queued
                      /\ importedLibraries' = Append(importedLibraries, library)
                      /\ includeFolders' =
                             appendIncludeFolder(includeFolders, LibraryIncludePath(library))
                      /\ cache' = ExpectEntry(cache, sourceFile, include,
                                              LibraryIncludePath(library))
                      /\ observedLog' =
                             Append(observedLog,
                                    includeCacheEntry(sourceFile, include, SourceDir(library)))
                      /\ queue' = queueSourceFilesFromFolder(queue, LibrarySourceFiles(library))
                      /\ ppLog' = ppLog \cup ran
                      /\ pc' = "expectFile"
                      /\ UNCHANGED <<cacheFile, result, sideEffects>>
    /\ UNCHANGED <<env, runs, sourceFile, unchanged, replay, prevFile>>

\* The queue is empty: ExpectEnd, then writeCache.
Finalize ==
    /\ UNCHANGED buildVars
    /\ pc = "loop"
    /\ queue = <<>>
    /\ cache' = ExpectEnd(cache)
    /\ cacheFile' = writeCache(cache', cacheFile)
    /\ sideEffects' = [sideEffects EXCEPT !.fileCall = writeCacheCall(cache')]
    /\ result' = "ok"
    /\ pc' = "done"
    /\ UNCHANGED <<env, runs, includeFolders, importedLibraries, queue,
                   sourceFile, unchanged, replay, prevFile, ppLog, observedLog>>

\* Run has returned; the build ends and its context is dropped.
Return ==
    /\ UNCHANGED buildVars
    /\ pc \in {"done", "failed"}
    /\ pc' = "idle"
    /\ history' = IF pc = "done" /\ prevFile.state = "absent"
                  THEN "clean ok"
                  ELSE "other"
    /\ cache' = readCache(AbsentFile)
    /\ includeFolders' = <<>>
    /\ importedLibraries' = <<>>
    /\ queue' = <<>>
    /\ sourceFile' = NilPath
    /\ unchanged' = FALSE
    /\ result' = "none"
    /\ replay' = FALSE
    /\ prevFile' = AbsentFile
    /\ ppLog' = {}
    /\ observedLog' = <<>>
    /\ sideEffects' = NoEffects
    /\ UNCHANGED <<runs, sketchIncludes, hasVariant, userLibrary, extraSource,
                   cacheFile>>

\* Between two builds the user edits the sketch.
EditSketch ==
    /\ UNCHANGED buildVars
    /\ pc = "idle"
    /\ runs > 0
    /\ runs < MaxRuns
    /\ sketchIncludes' \in SketchVersions \ {sketchIncludes}
    /\ history' = "other"
    /\ UNCHANGED <<pc, runs, hasVariant, userLibrary, extraSource, cacheFile, cache,
                   includeFolders,
                   importedLibraries, queue, sourceFile, unchanged, result,
                   replay, prevFile, ppLog, observedLog, sideEffects>>

\* Between two builds the journal file becomes unreadable.
DamageCache ==
    /\ UNCHANGED buildVars
    /\ pc = "idle"
    /\ runs < MaxRuns
    /\ cacheFile.state = "ok"
    /\ cacheFile' = UnreadableFile
    /\ history' = "other"
    /\ UNCHANGED <<pc, runs, sketchIncludes, hasVariant, userLibrary, extraSource,
                   cache,
                   includeFolders,
                   importedLibraries, queue, sourceFile, unchanged, result,
                   replay, prevFile, ppLog, observedLog, sideEffects>>

\* Between two builds the user installs or removes their copy of library A.
InstallLibrary ==
    /\ UNCHANGED buildVars
    /\ pc = "idle"
    /\ runs > 0
    /\ runs < MaxRuns
    /\ userLibrary' = ~userLibrary
    /\ history' = "other"
    /\ UNCHANGED <<pc, runs, sketchIncludes, hasVariant, extraSource, cacheFile,
                   cache,
                   includeFolders, importedLibraries, queue, sourceFile,
                   unchanged, result, replay, prevFile, ppLog, observedLog,
                   sideEffects>>

\* Between two builds the user deletes sketch/t.cpp.
RemoveSketchFile ==
    /\ UNCHANGED buildVars
    /\ pc = "idle"
    /\ runs > 0
    /\ runs < MaxRuns
    /\ extraSource
    /\ extraSource' = FALSE
    /\ history' = "other"
    /\ UNCHANGED <<pc, runs, sketchIncludes, hasVariant, userLibrary, cacheFile,
                   cache, includeFolders, importedLibraries, queue, sourceFile,
                   unchanged, result, replay, prevFile, ppLog, observedLog,
                   sideEffects>>

Discovery ==
    SeedCore \/ SeedVariant \/ PopSource \/ ExpectFileStep \/ Scan \/ Finalize

Next ==
    \/ StartRun \/ Discovery \/ Return
    \/ EditSketch \/ InstallLibrary \/ DamageCache \/ RemoveSketchFile

Spec == Init /\ [][Next]_vars

\* A running discovery keeps going: it is sequential code, and each child
\* process it waits for returns.
FairSpec == Spec /\ WF_vars(Discovery)


-----------------------------------------------------------------------------
(* Object files and dependency files.  A string is modelled as the sequence *)
(* of its pieces: the characters that the conversions look at, and chunks   *)
(* of other characters.                                                     *)

Backslash == "\\"

Space == " "

Tab == "\t"

Headers == {"sketch/a.h", "sketch/c.h", "sketch/my dir.h"}

\* objectFile := buildPath.Join(relativeSource.String() + ".o")
ObjectFile(source) ==
    CASE source = "sketch/a.cpp" -> "build/sketch/a.cpp.o"
      [] source = "sketch/c.cpp" -> "build/sketch/c.cpp.o"
      [] source = "sketch/d.cpp" -> "build/sketch/d.cpp.o"
      [] source = "sketch/b.S" -> "build/sketch/b.S.o"
      [] source = "core/w.cpp" -> "build/core/w.cpp.o"
      [] source = "core/x.cpp" -> "build/core/x.cpp.o"

\* depsFile := buildPath.Join(relativeSource.String() + ".d")
DepsFile(source) ==
    CASE source = "sketch/a.cpp" -> "build/sketch/a.cpp.d"
      [] source = "sketch/c.cpp" -> "build/sketch/c.cpp.d"
      [] source = "sketch/d.cpp" -> "build/sketch/d.cpp.d"
      [] source = "sketch/b.S" -> "build/sketch/b.S.d"
      [] source = "core/w.cpp" -> "build/core/w.cpp.d"
      [] source = "core/x.cpp" -> "build/core/x.cpp.d"

\* Path.String: the pieces of a path.
PathString(path) ==
    IF path = "sketch/my dir.h" THEN <<"sketch/my", Space, "dir.h">> ELSE <<path>>

\* A file, a path nothing is at, and a path that cannot be examined.
File(mtime, rows) == [stat |-> "ok", mtime |-> mtime, readable |-> TRUE, rows |-> rows]

NoFile == [stat |-> "absent", mtime |-> 0, readable |-> FALSE, rows |-> <<>>]

StatError == [stat |-> "error", mtime |-> 0, readable |-> FALSE, rows |-> <<>>]

\* Stat of a path of the file system.
Stat(d, path) == IF path \in DOMAIN d THEN d[path] ELSE NoFile

\* os.Stat of a row of a dependency file.
StatRow(d, row) ==
    LET named == {p \in DOMAIN d : PathString(p) = row}
    IN  IF named = {} THEN NoFile ELSE d[CHOOSE p \in named : TRUE]

\* F applied to the value of x, which is worked out once.
AtValue(x, F(_)) == CHOOSE r \in {F(v) : v \in {x}} : TRUE

\* strings.Replace(s, old, new, -1)
RECURSIVE Replace(_, _, _)
Replace(str, old, new) ==
    AtValue(str, LAMBDA s :
        IF Len(s) < Len(old)
        THEN s
        ELSE IF SubSeq(s, 1, Len(old)) = old
             THEN new \o Replace(SubSeq(s, Len(old) + 1, Len(s)), old, new)
             ELSE <<Head(s)>> \o Replace(Tail(s), old, new))

unescapeDep(s) ==
    LET s1 == Replace(s, <<Backslash, Space>>, <<Space>>)
        s2 == Replace(s1, <<Backslash, Tab>>, <<Tab>>)
        s3 == Replace(s2, <<Backslash, "#">>, <<"#">>)
        s4 == Replace(s3, <<"$", "$">>, <<"$">>)
    IN  Replace(s4, <<Backslash, Backslash>>, <<Backslash>>)

removeEndingBackSlash(s) ==
    IF s # <<>> /\ s[Len(s)] = Backslash THEN SubSeq(s, 1, Len(s) - 1) ELSE s

\* strings.Trim(s, cutset): the leading and trailing pieces of cutset go.
RECURSIVE Trim(_, _)
Trim(str, cutset) ==
    AtValue(str, LAMBDA s :
        IF s = <<>>
        THEN s
        ELSE IF Head(s) \in cutset
             THEN Trim(Tail(s), cutset)
             ELSE IF s[Len(s)] \in cutset
                  THEN Trim(SubSeq(s, 1, Len(s) - 1), cutset)
                  ELSE s)

TrimSpace(s) == Trim(s, {Space, Tab})

nonEmptyString(s) == s # <<>>

\* The rows of a dependency file as ObjFileIsUpToDate looks at them.
DepRows(rows) ==
    LET r1 == [i \in 1..Len(rows) |-> removeEndingBackSlash(rows[i])]
        r2 == [i \in 1..Len(rows) |-> TrimSpace(r1[i])]
        r3 == [i \in 1..Len(rows) |-> unescapeDep(r2[i])]
    IN  SelectSeq(r3, nonEmptyString)

\* ObjFileIsUpToDate: "true", "false", "error" for a returned error, "panic"
\* for an index out of range.
ObjFileIsUpToDate(d, source, objectFile, dependencyFile) ==
    IF objectFile = NilPath \/ dependencyFile = NilPath THEN "false"
    ELSE
    AtValue(DepRows(Stat(d, dependencyFile).rows), LAMBDA rows :
    LET sourceFileStat == Stat(d, source)
        objectFileStat == Stat(d, objectFile)
        dependencyFileStat == Stat(d, dependencyFile)
        rest == Tail(rows)
    IN  IF sourceFileStat.stat # "ok" THEN "error"
        ELSE IF objectFileStat.stat = "absent" THEN "false"
        ELSE IF objectFileStat.stat = "error" THEN "error"
        ELSE IF dependencyFileStat.stat = "absent" THEN "false"
        ELSE IF dependencyFileStat.stat = "error" THEN "error"
        ELSE IF sourceFileStat.mtime > objectFileStat.mtime THEN "false"
        ELSE IF sourceFileStat.mtime > dependencyFileStat.mtime THEN "false"
        ELSE IF ~dependencyFileStat.readable THEN "error"
        ELSE IF Len(rows) = 0 THEN "true"
        ELSE IF rows[1][Len(rows[1])] # ":" THEN "false"
        ELSE IF SubSeq(rows[1], 1, Len(rows[1]) - 1) # PathString(objectFile)
             THEN "false"
        ELSE IF Len(rows) < 2 THEN "panic"
        ELSE IF PathString(source) # Trim(rows[2], {Space}) THEN "false"
        ELSE IF \E i \in 1..Len(rest) :
                    \/ StatRow(d, rest[i]).stat # "ok"
                    \/ StatRow(d, rest[i]).mtime > objectFileStat.mtime
             THEN "false"
        ELSE "true")

\* The rows a dependency file of sketch/a.cpp may hold, as the compiler or
\* anything else wrote them.
RowObject == <<"build/sketch/a.cpp.o", ":", Space, Backslash>>

RowOtherObject == <<"build/sketch/c.cpp.o", ":", Space, Backslash>>

RowNoColon == <<"build/sketch/a.cpp.o", Space, Backslash>>

RowSource == <<Space, "sketch/a.cpp", Space, Backslash>>

RowOtherSource == <<Space, "sketch/c.cpp", Space, Backslash>>

RowHeader == <<Space, "sketch/a.h", Space, Backslash>>

RowSpacedHeader == <<Space, "sketch/my", Backslash, Space, "dir.h">>

RowMissing == <<Space, "sketch/gone.h">>

RowBlank == <<Space>>

RawRows ==
    { RowObject, RowOtherObject, RowNoColon, RowSource, RowOtherSource, RowHeader,
      RowSpacedHeader, RowMissing, RowBlank }

\* The longest dependency file looked at.
MaxRows == 3

DepContents == UNION {[1..n -> RawRows] : n \in 0..MaxRows}

Unreadable == [stat |-> "ok", mtime |-> 3, readable |-> FALSE, rows |-> <<>>]

\* The file systems ObjFileIsUpToDate is applied to: the source was written at
\* time 2, the object and the dependency file before or after it.
UpToDateDisks ==
    { [p \in {"sketch/a.cpp", "build/sketch/a.cpp.o", "build/sketch/a.cpp.d",
              "sketch/a.h", "sketch/c.cpp", "sketch/my dir.h"} |->
          CASE p = "sketch/a.cpp" -> src
            [] p = "build/sketch/a.cpp.o" -> obj
            [] p = "build/sketch/a.cpp.d" -> dep
            [] p = "sketch/a.h" -> File(hdr, <<>>)
            [] OTHER -> File(2, <<>>)] :
        src \in {File(2, <<>>), StatError},
        obj \in {NoFile, StatError, File(1, <<>>), File(3, <<>>)},
        dep \in {NoFile, StatError, Unreadable}
                 \cup {File(m, rows) : m \in {1, 3}, rows \in DepContents},
        hdr \in {2, 4} }

NoCheck == [objectFile |-> NilPath, dependencyFile |-> NilPath, result |-> "none"]

\* ObjFileIsUpToDate is called for sketch/a.cpp.
CheckUpToDate ==
    /\ stage = "ObjFileIsUpToDate"
    /\ upToDateResult = NoCheck
    /\ \E objectFile \in {ObjectFile("sketch/a.cpp"), NilPath} :
          upToDateResult' =
              [objectFile |-> objectFile,
               dependencyFile |-> DepsFile("sketch/a.cpp"),
               result |-> ObjFileIsUpToDate(disk, "sketch/a.cpp", objectFile,
                                            DepsFile("sketch/a.cpp"))]
    /\ UNCHANGED <<discoveryVars, ctxVars, disk, executed, compileVars, hookVars,
                   coreVars, archiveName, addPrototypes, queueLog>>

UpToDateInit ==
    /\ sketchIncludes = <<>>
    /\ hasVariant = FALSE
    /\ DiscoveryIdle
    /\ stage = "ObjFileIsUpToDate"
    /\ cancelRequested = FALSE
    /\ onlyUpdateCompilationDatabase = FALSE
    /\ codeModelBuilder = FALSE
    /\ compilationDatabaseOn = FALSE
    /\ jobs = 0
    /\ disk \in UpToDateDisks
    /\ diskBefore = disk
    /\ failing = {}
    /\ executed = <<>>
    /\ CompileIdle
    /\ HookIdle
    /\ CoreIdle
    /\ upToDateResult = NoCheck
    /\ CallsIdle

UpToDateNext == CheckUpToDate

UpToDateSpec == UpToDateInit /\ [][UpToDateNext]_vars

-----------------------------------------------------------------------------
(* UniqueSourceFileQueue, called on its own.                                *)

\* types.SourceFile: the origin and the path relative to the origin's root.
SourceFile(origin, relativePath) ==
    [Origin |-> origin, RelativePath |-> relativePath]

\* The files pushed: a.cpp of library A and of the user's copy of it, which
\* differ by their origin only, and a file of the sketch.
QueueFiles ==
    {SourceFile("A", "a.cpp"), SourceFile("A2", "a.cpp"), SourceFile("sketch", "t.cpp")}

\* The calls made on one queue.
MaxCalls == 6

Calls == Len(queueLog.appended) + Len(queueLog.popped)

\* queue.Push(value)
QueuePush ==
    /\ stage = "UniqueSourceFileQueue"
    /\ Calls < MaxCalls
    /\ \E value \in QueueFiles :
          /\ queue' = Push(queue, value)
          /\ queueLog' =
                 [queueLog EXCEPT
                     !.appended = IF sliceContainsSourceFile(queue, value)
                                  THEN @
                                  ELSE Append(@, value),
                     !.call = "Push",
                     !.value = <<value>>,
                     !.before = queue]
    /\ UNCHANGED <<pc, runs, sketchIncludes, hasVariant, userLibrary, extraSource,
                   cacheFile, history, cache, includeFolders, importedLibraries, sourceFile,
                   unchanged, result, replay, prevFile, ppLog, observedLog,
                   sideEffects>>
    /\ UNCHANGED <<ctxVars, disk, executed, compileVars, hookVars, coreVars,
                   upToDateResult, archiveName, addPrototypes>>

\* for !queue.Empty() { queue.Pop() }: Pop is called on a queue that holds a
\* file.
QueuePop ==
    /\ stage = "UniqueSourceFileQueue"
    /\ Calls < MaxCalls
    /\ queue # <<>>
    /\ queue' = Pop(queue).queue
    /\ queueLog' =
           [queueLog EXCEPT !.popped = Append(@, Pop(queue).x),
                            !.call = "Pop",
                            !.value = <<Pop(queue).x>>,
                            !.before = queue]
    /\ UNCHANGED <<pc, runs, sketchIncludes, hasVariant, userLibrary, extraSource,
                   cacheFile, history, cache, includeFolders, importedLibraries, sourceFile,
                   unchanged, result, replay, prevFile, ppLog, observedLog,
                   sideEffects>>
    /\ UNCHANGED <<ctxVars, disk, executed, compileVars, hookVars, coreVars,
                   upToDateResult, archiveName, addPrototypes>>

QueueInit ==
    /\ sketchIncludes = <<>>
    /\ hasVariant = FALSE
    /\ DiscoveryIdle
    /\ stage = "UniqueSourceFileQueue"
    /\ cancelRequested = FALSE
    /\ onlyUpdateCompilationDatabase = FALSE
    /\ codeModelBuilder = FALSE
    /\ compilationDatabaseOn = FALSE
    /\ jobs = 0
    /\ disk = <<>>
    /\ diskBefore = disk
    /\ failing = {}
    /\ executed = <<>>
    /\ CompileIdle
    /\ HookIdle
    /\ CoreIdle
    /\ upToDateResult = NoCheck
    /\ CallsIdle

QueueNext == QueuePush \/ QueuePop

QueueSpec == QueueInit /\ [][QueueNext]_vars

-----------------------------------------------------------------------------
(* Build properties and recipes.                                            *)

\* A key of the build properties and its value.
Property(key, value) == [key |-> key, value |-> value]

\* properties.Map.Get: "" for a key that is not set.
Get(properties, key) ==
    IF \E i \in 1..Len(properties) : properties[i].key = key
    THEN properties[CHOOSE i \in 1..Len(properties) : properties[i].key = key].value
    ELSE ""

\* A pattern whose quotes do not close.
UnbalancedPattern == "echo \"3"

\* properties.SplitQuotedString on the patterns of the model.
SplitQuotedString(commandLine) ==
    IF commandLine = UnbalancedPattern THEN "error" ELSE commandLine

\* A command is made of any pattern, an empty one too.
PrepareAnyPattern(properties, recipe) == SplitQuotedString(Get(properties, recipe))

\* PrepareCommandForRecipe: the command, or "error" for a missing pattern and
\* for one that cannot be split.
PrepareCommandForRecipe(properties, recipe) ==
    IF Get(properties, recipe) = "" THEN "error"
    ELSE SplitQuotedString(Get(properties, recipe))

\* constants.RECIPE_S_PATTERN, RECIPE_C_PATTERN, RECIPE_CPP_PATTERN
RECIPE_S_PATTERN == "recipe.S.o.pattern"

RECIPE_C_PATTERN == "recipe.c.o.pattern"

RECIPE_CPP_PATTERN == "recipe.cpp.o.pattern"

\* constants.RECIPE_AR_PATTERN
RECIPE_AR_PATTERN == "recipe.ar.pattern"

\* The recipes a platform defines for compiling and archiving.
PlatformRecipes ==
    <<Property(RECIPE_S_PATTERN, "gcc -x assembler-with-cpp"),
      Property(RECIPE_C_PATTERN, "gcc"),
      Property(RECIPE_CPP_PATTERN, "g++"),
      Property(RECIPE_AR_PATTERN, "ar rcs")>>

\* The platform without the key, and with the key set to nothing.
Without(properties, key) == SelectSeq(properties, LAMBDA p : p.key # key)

WithEmpty(properties, key) ==
    [i \in 1..Len(properties) |->
        IF properties[i].key = key THEN Property(key, "") ELSE properties[i]]

\* The maps of the program: the one of the context and the clones.
Heap == [ctx |-> buildProperties, clones |-> clones]

MapOf(heap, map) == IF map = CtxMap THEN heap.ctx ELSE heap.clones[map]

Store(heap, map, properties) ==
    IF map = CtxMap
    THEN [heap EXCEPT !.ctx = properties]
    ELSE [heap EXCEPT !.clones[map] = properties]

\* A Clone that hands out the map it was called on.
SameMap(map, new) == map

\* properties.Map.Clone: the reference to a new map, ...
Clone(map, new) == new

\* ... which holds what the map holds.
Cloned(heap, map, new) == Store(heap, Clone(map, new), MapOf(heap, map))

\* properties.Map.Set on the keys and values: the value of a key that is set
\* is replaced, a new key goes to the end.
SetKey(properties, key, value) ==
    IF \E i \in 1..Len(properties) : properties[i].key = key
    THEN [i \in 1..Len(properties) |->
             IF properties[i].key = key THEN Property(key, value) ELSE properties[i]]
    ELSE Append(properties, Property(key, value))

\* m.Set(key, value) and m.SetPath(key, path)
Set(heap, map, key, value) ==
    AtValue(heap, LAMBDA h : Store(h, map, SetKey(MapOf(h, map), key, value)))

\* ReplaceOptimizationFlags on the flags of the model: an optimization level
\* becomes -O0, and -flto becomes an empty word between its spaces.
ReplaceOptimizationFlags(str) ==
    CASE str = "-Os" -> "-O0"
      [] str = "-Os -flto" -> "-O0 "
      [] str = "" -> ""

\* RemoveOptimizationFromBuildProperties: the maps after it; its result is
\* Clone(map, UnoptimizedMap).
RemoveOptimizationFromBuildProperties(heap, map) ==
    LET made == Clone(map, UnoptimizedMap)
        heap0 == Cloned(heap, map, UnoptimizedMap)
        heap1 == Set(heap0, made, "compiler.c.flags",
                     ReplaceOptimizationFlags(Get(MapOf(heap0, made),
                                                  "compiler.c.flags")))
        heap2 == Set(heap1, made, "compiler.cpp.flags",
                     ReplaceOptimizationFlags(Get(MapOf(heap1, made),
                                                  "compiler.cpp.flags")))
    IN  Set(heap2, made, "build.flags.optimize",
            ReplaceOptimizationFlags(Get(MapOf(heap2, made),
                                         "build.flags.optimize")))

\* a + " " + b on the flags of the model.
WithExtraFlags(flags, extraflags) ==
    CASE flags = "-Os -flto" /\ extraflags = "" -> "-Os -flto "
      [] flags = "-O0 " /\ extraflags = "" -> "-O0  "
      [] flags = "-Os -flto" /\ extraflags = "-DSYSPROGS" -> "-Os -flto -DSYSPROGS"
      [] flags = "-O0 " /\ extraflags = "-DSYSPROGS" -> "-O0  -DSYSPROGS"
      [] flags = "" /\ extraflags = "" -> " "

\* ExpandSysprogsExtensionProperties: the maps after it; its result is
\* Clone(map, ExpandedMap).
ExpandSysprogsExtensionProperties(heap, map) ==
    LET made == Clone(map, ExpandedMap)
        heap0 == Cloned(heap, map, ExpandedMap)
        extraflags == Get(MapOf(heap0, made), "com.sysprogs.extraflags")
        heap1 == Set(heap0, made, "compiler.c.flags",
                     WithExtraFlags(Get(MapOf(heap0, made), "compiler.c.flags"),
                                    extraflags))
    IN  Set(heap1, made, "compiler.cpp.flags",
            WithExtraFlags(Get(MapOf(heap1, made), "compiler.cpp.flags"),
                           Get(MapOf(heap1, made), "com.sysprogs.extraflags")))

\* The map a builder hands to CompileFiles and to compileCore, and the maps
\* once it was made: the map of the context, unoptimized if the context says
\* so, and expanded.
StageMap ==
    Clone(IF unoptimize THEN Clone(CtxMap, UnoptimizedMap) ELSE CtxMap, ExpandedMap)

StageProperties(heap) ==
    IF unoptimize
    THEN ExpandSysprogsExtensionProperties(
             RemoveOptimizationFromBuildProperties(heap, CtxMap),
             Clone(CtxMap, UnoptimizedMap))
    ELSE ExpandSysprogsExtensionProperties(heap, CtxMap)

\* ctx.WarningsLevel and the include flags of the model.
WarningsLevel == "all"

WarningFlagsOf(level) == CASE level = "all" -> "compiler.warning_flags.all"

Includes == "-Isketch -Icore"

\* compileFileWithRecipe on its clone: the maps after the four calls of Set;
\* the clone is Clone(StageMap, JobMap(w)).
CompileFileProperties(heap, w, source, objectFile) ==
    LET properties == Clone(StageMap, JobMap(w))
        heap0 == Cloned(heap, StageMap, JobMap(w))
        heap1 == Set(heap0, properties, "compiler.warning_flags",
                     Get(MapOf(heap0, properties), WarningFlagsOf(WarningsLevel)))
        heap2 == Set(heap1, properties, "includes", Includes)
        heap3 == Set(heap2, properties, "source_file", source)
    IN  Set(heap3, properties, "object_file", objectFile)

\* ArchiveCompiledFiles on the clone it makes for an object.
ArchiveProperties(heap, archiveFilePath, objectFile) ==
    LET properties == Clone(StageMap, ArchiverMap)
        heap0 == Cloned(heap, StageMap, ArchiverMap)
        heap1 == Set(heap0, properties, "archive_file", "core.a")
        heap2 == Set(heap1, properties, "archive_file_path", archiveFilePath)
    IN  Set(heap2, properties, "object_file", objectFile)

\* The flags and the warning flags of a platform.
PlatformFlags(extraflags) ==
    <<Property("compiler.c.flags", "-Os -flto"),
      Property("compiler.cpp.flags", "-Os -flto"),
      Property("build.flags.optimize", "-Os"),
      Property("com.sysprogs.extraflags", extraflags),
      Property("compiler.warning_flags.all", "-Wall")>>

\* The recipe of a call of compileFilesWithRecipe.
Recipe(extension) ==
    CASE extension = ".S" -> RECIPE_S_PATTERN
      [] extension = ".c" -> RECIPE_C_PATTERN
      [] extension = ".cpp" -> RECIPE_CPP_PATTERN

-----------------------------------------------------------------------------
(* The compile scheduler: CompileFiles, compileFilesWithRecipe and the job  *)
(* runners, as SketchBuilder.Run calls them.                                *)

\* runtime.NumCPU()
NumCPU == Cardinality(Workers)

\* The recipes of CompileFiles, in the order of its calls.
RecipeAfter(recipe) ==
    CASE recipe = ".S" -> ".c"
      [] recipe = ".c" -> ".cpp"
      [] recipe = ".cpp" -> "return"

\* findFilesInFolder: the files of the folder with the extension, in the order
\* of the directory listing.
findFilesInFolder(folder, extension) ==
    CASE folder = "sketch" /\ extension = ".S" -> <<"sketch/b.S">>
      [] folder = "sketch" /\ extension = ".cpp" ->
             <<"sketch/a.cpp", "sketch/c.cpp", "sketch/d.cpp">>
      [] folder = "core" /\ extension = ".cpp" -> <<"core/w.cpp", "core/x.cpp">>
      [] OTHER -> <<>>

\* The folder a stage compiles.
SourcePath == IF stage = "CoreBuilder" THEN "core" ELSE "sketch"

\* The paths of object files in the order of their strings.
PathOrder ==
    <<"build/core/w.cpp.o", "build/core/x.cpp.o", "build/sketch/a.cpp.o",
      "build/sketch/b.S.o", "build/sketch/c.cpp.o", "build/sketch/d.cpp.o">>

PathLess(a, b) ==
    \E i, j \in 1..Len(PathOrder) : PathOrder[i] = a /\ PathOrder[j] = b /\ i < j

\* The list is left in the order in which the jobs finished.
Unsorted(list) == list

\* PathList.Sort
Sort(list) == SortSeq(list, PathLess)

\* The header a source includes.
HeaderOf(source) ==
    CASE source = "sketch/a.cpp" -> "sketch/a.h"
      [] source = "sketch/c.cpp" -> "sketch/c.h"
      [] OTHER -> NilPath

\* The dependency file the compiler writes beside the object.
CompilerDepRows(source) ==
    <<PathString(ObjectFile(source)) \o <<":", Space, Backslash>>,
      <<Space>> \o PathString(source) \o <<Space, Backslash>>>>
    \o IF HeaderOf(source) = NilPath
       THEN <<>>
       ELSE <<<<Space>> \o PathString(HeaderOf(source))>>

\* What was found for a source when the build starts.  Earlier builds wrote
\* objects and dependency files at time 3; sources and headers are from time
\* 2, or from time 4 when they were touched since.
SourceStates == {"no object", "up to date", "source newer", "header newer"}

\* The modes of a build: only-update mode is a mode of builds that write a
\* compilation database.
BuildModes ==
    { [database |-> FALSE, onlyUpdate |-> FALSE],
      [database |-> TRUE, onlyUpdate |-> FALSE],
      [database |-> TRUE, onlyUpdate |-> TRUE] }

DiskOf(state) ==
    [p \in SketchSources \cup {ObjectFile(s) : s \in SketchSources}
           \cup {DepsFile(s) : s \in SketchSources} \cup {"sketch/a.h", "sketch/c.h"} |->
        IF p \in SketchSources
        THEN File(IF state[p] = "source newer" THEN 4 ELSE 2, <<>>)
        ELSE IF \E s \in SketchSources : p = ObjectFile(s)
        THEN LET s == CHOOSE s \in SketchSources : p = ObjectFile(s)
             IN  IF state[s] = "no object" THEN NoFile
                 ELSE IF state[s] = "object unreadable" THEN StatError
                 ELSE File(3, <<>>)
        ELSE IF \E s \in SketchSources : p = DepsFile(s)
        THEN LET s == CHOOSE s \in SketchSources : p = DepsFile(s)
             IN  IF state[s] = "no object" THEN NoFile
                 ELSE File(3, CompilerDepRows(s))
        ELSE LET s == CHOOSE s \in SketchSources : p = HeaderOf(s)
             IN  File(IF state[s] = "header newer" THEN 4 ELSE 2, <<>>)]

SketchDisks ==
    { DiskOf([s \in SketchSources |->
                 CASE s = "sketch/a.cpp" -> a
                   [] s = "sketch/c.cpp" -> c
                   [] s = "sketch/d.cpp" -> "no object"
                   [] s = "sketch/b.S" -> b]) :
        a \in {"up to date", "source newer", "object unreadable"},
        c \in {"no object", "header newer"},
        b \in {"no object", "up to date"} }

\* The compiler wrote the object and its dependency file: now, at time 5.
Compiled(d, source) ==
    [d EXCEPT ![ObjectFile(source)] = File(5, <<>>),
              ![DepsFile(source)] = File(5, CompilerDepRows(source))]

\* libraryModel != nil: SketchBuilder and CoreBuilder pass a code model when
\* the context has a code model builder.
LibraryModel == codeModelBuilder

\* ctx.Jobs runners are spawned, none when it is 0.
JobRunnersAsGiven == jobs

\* The number of job runners spawned.
JobRunners == IF jobs = 0 THEN NumCPU ELSE jobs

otherStages == <<discoveryVars, callVars, hookVars, coreVars>>

\* The same for a step that makes or sets a map of properties.
otherThanMaps == <<discoveryVars, callVars, unoptimize, hookRunner, coreVars>>

\* sync.Mutex: Lock returns when nobody holds it.
MutexFree(mutex) == mutex = 0

\* SketchBuilder.Run calls CompileFiles on the sketch build folder.
SketchBuilderRun ==
    /\ stage = "SketchBuilder"
    /\ cfPc = "idle"
    /\ cfPc' = ".S"
    /\ buildProperties' = StageProperties(Heap).ctx
    /\ clones' = StageProperties(Heap).clones
    /\ UNCHANGED <<otherThanMaps, unsortedSeen, compiled, ctxVars, disk,
                   executed, feeder, closed, worker, objectFiles, errorsList,
                   objectFilesMux, errorsMux, compilationDatabase, invocations,
                   collected, returned, sent>>

\* compileFilesWithRecipe up to the feeding loop: nothing to do without
\* sources, else the job runners are spawned.
SpawnRunners ==
    /\ cfPc \in {".S", ".c", ".cpp"}
    /\ feeder.pc = "off"
    /\ IF findFilesInFolder(SourcePath, cfPc) = <<>>
       THEN /\ cfPc' = RecipeAfter(cfPc)
            /\ UNCHANGED <<feeder, closed, worker, objectFiles, errorsList>>
       ELSE /\ worker' = [w \in Workers |->
                             IF w <= JobRunners
                             THEN [WorkerOff EXCEPT !.pc = "receive"]
                             ELSE WorkerOff]
            /\ feeder' = [pc |-> "check", idx |-> 1]
            /\ closed' = FALSE
            /\ objectFiles' = <<>>
            /\ errorsList' = <<>>
            /\ UNCHANGED cfPc
    /\ UNCHANGED <<otherStages, unsortedSeen, compiled, ctxVars, disk,
                   executed, objectFilesMux, errorsMux, compilationDatabase,
                   invocations, collected, returned, sent>>

\* The feeder does not look at the error list.
GotErrorIgnored == FALSE

\* gotError := len(errorsList) > 0
GotError == Len(errorsList) > 0

\* The feeding loop up to the send: with no source left, or with gotError read
\* under errorsMux, the loop ends and the queue is closed.
FeedCheck ==
    /\ feeder.pc = "check"
    /\ IF feeder.idx > Len(findFilesInFolder(SourcePath, cfPc))
       THEN /\ feeder' = [feeder EXCEPT !.pc = "wait"]
            /\ closed' = TRUE
       ELSE /\ MutexFree(errorsMux)
            /\ IF GotError
               THEN /\ feeder' = [feeder EXCEPT !.pc = "wait"]
                    /\ closed' = TRUE
               ELSE /\ feeder' = [feeder EXCEPT !.pc = "send"]
                    /\ UNCHANGED closed
    /\ UNCHANGED <<otherStages, unsortedSeen, compiled, ctxVars, disk,
                   executed, cfPc, worker, objectFiles, errorsList,
                   objectFilesMux, errorsMux, compilationDatabase, invocations,
                   collected, returned, sent>>

\* queue <- source: the unbuffered channel hands the source to a runner that
\* waits in its range loop.
Dispatch(w) ==
    /\ feeder.pc = "send"
    /\ worker[w].pc = "receive"
    /\ LET source == findFilesInFolder(SourcePath, cfPc)[feeder.idx]
       IN  /\ worker' = [worker EXCEPT ![w].pc = "job", ![w].source = source]
           /\ sent' = Append(sent, [source |-> source,
                                    gotError |-> Len(errorsList) > 0])
    /\ feeder' = [pc |-> "check", idx |-> feeder.idx + 1]
    /\ UNCHANGED <<otherStages, unsortedSeen, compiled, ctxVars, disk,
                   executed, cfPc, closed, objectFiles, errorsList,
                   objectFilesMux, errorsMux, compilationDatabase, invocations,
                   collected, returned>>

\* A runner finds the channel closed: wg.Done().
RunnerExit(w) ==
    /\ worker[w].pc = "receive"
    /\ closed
    /\ worker' = [worker EXCEPT ![w].pc = "exited"]
    /\ UNCHANGED <<otherStages, unsortedSeen, compiled, ctxVars, disk,
                   executed, cfPc, feeder, closed, objectFiles, errorsList,
                   objectFilesMux, errorsMux, compilationDatabase, invocations,
                   collected, returned, sent>>

\* The compile command is run whatever the check said.
MustCompileAlways(upToDate) == TRUE

\* if !objIsUpToDate && !ctx.OnlyUpdateCompilationDatabase && libraryModel == nil
MustCompile(upToDate) ==
    ~upToDate /\ ~onlyUpdateCompilationDatabase /\ ~LibraryModel

\* The command is recorded only when it is going to be run.
RecordIfCompiled(upToDate) == compilationDatabaseOn /\ MustCompile(upToDate)

\* if ctx.CompilationDatabase != nil
RecordCommand(upToDate) == compilationDatabaseOn

\* compileFileWithRecipe up to the code model: the up-to-date check, the
\* command of the recipe, its record in the compilation database, and the read of
\* libraryModel.Invocations for the append.  No lock is held for the append.
JobStart(w) ==
    /\ worker[w].pc = "job"
    /\ LET source == worker[w].source
           heap == CompileFileProperties(Heap, w, source, ObjectFile(source))
           properties == MapOf(heap, Clone(StageMap, JobMap(w)))
           upToDate == ObjFileIsUpToDate(disk, source, ObjectFile(source),
                                         DepsFile(source))
       IN  /\ upToDate # "panic"
           /\ buildProperties' = heap.ctx
           /\ clones' = heap.clones
           /\ IF \/ upToDate = "error"
                 \/ PrepareCommandForRecipe(properties, Recipe(cfPc)) = "error"
              THEN /\ worker' = [worker EXCEPT ![w].pc = "lock errors"]
                   /\ UNCHANGED compilationDatabase
              ELSE /\ worker' = [worker EXCEPT
                                    ![w].upToDate = (upToDate = "true"),
                                    ![w].seen = IF LibraryModel THEN invocations
                                                ELSE <<>>,
                                    ![w].pc = "compile"]
                   /\ compilationDatabase' =
                          IF RecordCommand(upToDate = "true")
                          THEN [compilationDatabase EXCEPT ![source] = @ + 1]
                          ELSE compilationDatabase
    /\ UNCHANGED <<otherThanMaps, unsortedSeen, compiled, ctxVars, disk,
                   executed, cfPc, feeder, closed, objectFiles, errorsList,
                   objectFilesMux, errorsMux, invocations, collected, returned,
                   sent>>

\* The rest of compileFileWithRecipe: the longer slice of invocations is
\* stored, and the compile command is run, or skipped.
Compile(w) ==
    /\ worker[w].pc = "compile"
    /\ LET source == worker[w].source
       IN  /\ invocations' = IF LibraryModel
                             THEN Append(worker[w].seen, source)
                             ELSE invocations
           /\ IF MustCompile(worker[w].upToDate)
              THEN /\ compiled' = [compiled EXCEPT ![source] = @ + 1]
                   /\ IF source \in failing
                      THEN /\ worker' = [worker EXCEPT ![w].seen = <<>>,
                                                       ![w].pc = "lock errors"]
                           /\ UNCHANGED disk
                      ELSE /\ worker' = [worker EXCEPT ![w].seen = <<>>,
                                                       ![w].pc = "lock objects"]
                           /\ disk' = Compiled(disk, source)
              ELSE /\ worker' = [worker EXCEPT ![w].seen = <<>>,
                                               ![w].pc = "lock objects"]
                   /\ UNCHANGED <<disk, compiled>>
    /\ UNCHANGED <<otherStages, unsortedSeen, ctxVars, executed, cfPc, feeder,
                   closed, objectFiles, errorsList, objectFilesMux, errorsMux,
                   compilationDatabase, collected, returned, sent>>

\* errorsMux.Lock() or objectFilesMux.Lock() of the job.
Lock(w) ==
    /\ \/ /\ worker[w].pc = "lock errors"
          /\ MutexFree(errorsMux)
          /\ errorsMux' = w
          /\ worker' = [worker EXCEPT ![w].seen = errorsList, ![w].pc = "add error"]
          /\ UNCHANGED objectFilesMux
       \/ /\ worker[w].pc = "lock objects"
          /\ MutexFree(objectFilesMux)
          /\ objectFilesMux' = w
          /\ worker' = [worker EXCEPT ![w].seen = objectFiles, ![w].pc = "add object"]
          /\ UNCHANGED errorsMux
    /\ UNCHANGED <<otherStages, unsortedSeen, compiled, ctxVars, disk,
                   executed, cfPc, feeder, closed, objectFiles, errorsList,
                   compilationDatabase, invocations, collected, returned,
                   sent>>

\* The append and the Unlock of the job, whose clone of the properties is
\* garbage from here; the runner waits for the next source.
Record(w) ==
    /\ \/ /\ worker[w].pc = "add error"
          /\ errorsList' = Append(worker[w].seen, worker[w].source)
          /\ errorsMux' = 0
          /\ UNCHANGED <<objectFiles, objectFilesMux>>
       \/ /\ worker[w].pc = "add object"
          /\ objectFiles' = Append(worker[w].seen, ObjectFile(worker[w].source))
          /\ objectFilesMux' = 0
          /\ UNCHANGED <<errorsList, errorsMux>>
    /\ worker' = [worker EXCEPT ![w] = [WorkerOff EXCEPT !.pc = "receive"]]
    /\ clones' = [clones EXCEPT ![JobMap(w)] = <<>>]
    /\ UNCHANGED <<otherThanMaps, buildProperties, unsortedSeen, compiled, ctxVars, disk,
                   executed, cfPc, feeder, closed, compilationDatabase,
                   invocations, collected, returned, sent>>

\* wg.Wait() returns at once.
RunnersNotAwaited == TRUE

\* wg.Wait(): every runner has called wg.Done().
RunnersDone == \A w \in Workers : worker[w].pc \in {"off", "exited"}

\* wg.Wait() returns when every runner has exited: the first error, or the
\* sorted object files.
WaitAll ==
    /\ feeder.pc = "wait"
    /\ RunnersDone
    /\ feeder' = [pc |-> "off", idx |-> 0]
    /\ worker' = [w \in Workers |-> WorkerOff]
    /\ IF Len(errorsList) > 0
       THEN /\ cfPc' = "failed"
            /\ returned' = [err |-> errorsList[1], objectFiles |-> <<>>]
            /\ UNCHANGED collected
       ELSE /\ cfPc' = RecipeAfter(cfPc)
            /\ collected' = collected \o Sort(objectFiles)
            /\ UNCHANGED returned
    /\ objectFiles' = <<>>
    /\ errorsList' = <<>>
    /\ closed' = FALSE
    /\ unsortedSeen' = (unsortedSeen \/ Sort(objectFiles) # objectFiles)
    /\ UNCHANGED <<otherStages, compiled, ctxVars, disk, executed, objectFilesMux,
                   errorsMux, compilationDatabase, invocations, sent>>

\* CompileFiles returns the object files of its three calls, one after the
\* other.
ReturnObjectFiles ==
    /\ cfPc = "return"
    /\ cfPc' = "done"
    /\ returned' = [err |-> "nil", objectFiles |-> collected]
    /\ UNCHANGED <<otherStages, unsortedSeen, compiled, ctxVars, disk,
                   executed, feeder, closed, worker, objectFiles, errorsList,
                   objectFilesMux, errorsMux, compilationDatabase, invocations,
                   collected, sent>>

Runner(w) ==
    \/ RunnerExit(w)
    \/ JobStart(w)
    \/ Compile(w)
    \/ Lock(w)
    \/ Record(w)

Feeder == FeedCheck \/ (\E w \in Workers : Dispatch(w)) \/ WaitAll

CompileFiles == SpawnRunners \/ Feeder \/ (\E w \in Workers : Runner(w)) \/ ReturnObjectFiles

SketchBuilderInit ==
    /\ sketchIncludes = <<>>
    /\ hasVariant = FALSE
    /\ DiscoveryIdle
    /\ stage = "SketchBuilder"
    /\ cancelRequested = FALSE
    /\ \E mode \in BuildModes :
          /\ compilationDatabaseOn = mode.database
          /\ onlyUpdateCompilationDatabase = mode.onlyUpdate
    /\ codeModelBuilder \in BOOLEAN
    /\ jobs \in {0, 1}
    /\ disk \in SketchDisks
    /\ diskBefore = disk
    /\ failing \in {{}} \cup {{s} : s \in SketchSources \ {"sketch/b.S"}}
    /\ executed = <<>>
    /\ CompileIdle
    /\ buildProperties = PlatformRecipes \o PlatformFlags("")
    /\ unoptimize = FALSE
    /\ HookRunnerOff
    /\ CoreIdle
    /\ upToDateResult = NoCheck
    /\ CallsIdle

-----------------------------------------------------------------------------
(* The hook runner: RecipeByPrefixSuffixRunner.Run and findRecipes.         *)

\* constants.HOOKS_PREBUILD and the prefix of the hooks run before the sketch
\* is compiled; constants.HOOKS_PATTERN_SUFFIX.
HOOKS_PREBUILD == "recipe.hooks.prebuild"

HOOKS_SKETCH_PREBUILD == "recipe.hooks.sketch.prebuild"

HOOKS_PATTERN_SUFFIX == ".pattern"

\* The key <hook>.<number>.pattern; the number is kept as its digits.
HookKey(hook, number) ==
    [hook |-> hook, number |-> number, suffix |-> HOOKS_PATTERN_SUFFIX]

\* strings.HasPrefix and strings.HasSuffix on the keys of the model.
HasPrefix(key, patternPrefix) == key.hook = patternPrefix

HasSuffix(key, patternSuffix) == key.suffix = patternSuffix

\* The bytes of a key that follow "<hook>.", up to the dot before "pattern":
\* the digits '0'..'9' are 48..57 and the dot is 46.
Bytes(key) == [i \in 1..Len(key.number) |-> 48 + key.number[i]] \o <<46>>

\* The order of Go strings: byte by byte, a proper prefix first.
RECURSIVE BytesLess(_, _)
BytesLess(a, b) ==
    IF b = <<>> THEN FALSE
    ELSE IF a = <<>> THEN TRUE
    ELSE IF Head(a) # Head(b) THEN Head(a) < Head(b)
    ELSE BytesLess(Tail(a), Tail(b))

\* The value of a number written in digits.
RECURSIVE Value(_)
Value(digits) ==
    IF digits = <<>> THEN 0
    ELSE 10 * Value(SubSeq(digits, 1, Len(digits) - 1)) + digits[Len(digits)]

\* The keys in the order of their numbers.
NumberLess(a, b) == Value(a.number) < Value(b.number)

\* The order of the keys of one hook.
StringLess(a, b) == BytesLess(Bytes(a), Bytes(b))

\* The recipes are run in the order of the property file.
FileOrder(recipes) == recipes

\* sort.Strings
SortStrings(recipes) == SortSeq(recipes, StringLess)

\* The keys with the prefix and the suffix that have a value, sorted as strings.
findRecipes(properties, patternPrefix, patternSuffix) ==
    SortStrings(
        SelectSeq([i \in 1..Len(properties) |-> properties[i].key],
                  LAMBDA key : /\ HasPrefix(key, patternPrefix)
                               /\ HasSuffix(key, patternSuffix)
                               /\ Get(properties, key) # ""))

\* The hooks of the platform documentation, 01 to 11, each echoing its number.
Echo ==
    <<"echo 1", "echo 2", "echo 3", "echo 4", "echo 5", "echo 6", "echo 7",
      "echo 8", "echo 9", "echo 10", "echo 11">>

PaddedNumber(n) == <<n \div 10, n % 10>>

PaddedHooks ==
    [n \in 1..Len(Echo) |->
        Property(HookKey(HOOKS_SKETCH_PREBUILD, PaddedNumber(n)), Echo[n])]

\* Hooks numbered without padding.
UnpaddedHooks ==
    <<Property(HookKey(HOOKS_SKETCH_PREBUILD, <<1>>), "echo a"),
      Property(HookKey(HOOKS_SKETCH_PREBUILD, <<2>>), "echo b"),
      Property(HookKey(HOOKS_SKETCH_PREBUILD, <<1, 0>>), "echo j")>>

\* Hooks of more than one kind, one without a value and one that cannot be
\* split.
MixedHooks ==
    <<Property(HookKey(HOOKS_PREBUILD, <<1>>), "echo"),
      Property(HookKey(HOOKS_SKETCH_PREBUILD, <<0, 1>>), "echo 1"),
      Property(HookKey(HOOKS_SKETCH_PREBUILD, <<0, 2>>), ""),
      Property(HookKey(HOOKS_SKETCH_PREBUILD, <<0, 3>>), UnbalancedPattern),
      Property(HookKey(HOOKS_SKETCH_PREBUILD, <<0, 4>>), "echo 4")>>

Reverse(list) == [i \in 1..Len(list) |-> list[Len(list) + 1 - i]]

\* The property files of the model: the keys of a file come in any order.
PropertyFiles ==
    {PaddedHooks, Reverse(PaddedHooks), UnpaddedHooks, Reverse(UnpaddedHooks),
     MixedHooks, Reverse(MixedHooks)}

Patterns(properties) == {properties[i].value : i \in 1..Len(properties)} \ {""}

\* Run returns: nil, or the error of the step that failed on the recipe at idx.
HookReturn(err) == [hookRunner EXCEPT !.pc = "returned", !.err = err]

hookFrame == <<discoveryVars, ctxVars, disk, compileVars, callVars, coreVars>>

\* The map Run prepares its commands from: the clone of its clone.
HookProperties == MapOf(Heap, Clone(Clone(CtxMap, RunnerMap), RecipeMap))

\* Run up to its loop: the recipes are found; with a code model builder only
\* the hooks of HOOKS_PREBUILD are run.
FindRecipes ==
    /\ stage = "RecipeByPrefixSuffixRunner"
    /\ hookRunner.pc = "find"
    /\ LET heap == Cloned(Heap, CtxMap, RunnerMap)
           recipes == findRecipes(MapOf(heap, Clone(CtxMap, RunnerMap)),
                                  hookRunner.prefix, HOOKS_PATTERN_SUFFIX)
       IN  IF codeModelBuilder /\ hookRunner.prefix # HOOKS_PREBUILD
           THEN /\ hookRunner' = [hookRunner EXCEPT !.recipes = recipes,
                                                    !.pc = "returned",
                                                    !.err = "nil"]
                /\ buildProperties' = heap.ctx
                /\ clones' = heap.clones
           ELSE /\ hookRunner' = [hookRunner EXCEPT !.recipes = recipes,
                                                    !.pc = "prepare", !.idx = 1]
                /\ buildProperties' =
                       Cloned(heap, Clone(CtxMap, RunnerMap), RecipeMap).ctx
                /\ clones' =
                       Cloned(heap, Clone(CtxMap, RunnerMap), RecipeMap).clones
    /\ UNCHANGED <<hookFrame, unoptimize, executed>>

\* The head of the loop body: the command of the next recipe is prepared; in
\* only-update mode Run returns before it runs the first one.
PrepareHook ==
    /\ hookRunner.pc = "prepare"
    /\ hookRunner' =
          IF hookRunner.idx > Len(hookRunner.recipes)
          THEN HookReturn("nil")
          ELSE LET recipe == hookRunner.recipes[hookRunner.idx]
               IN  IF PrepareCommandForRecipe(HookProperties, recipe) = "error"
                   THEN HookReturn("prepare")
                   ELSE IF onlyUpdateCompilationDatabase
                   THEN HookReturn("nil")
                   ELSE [hookRunner EXCEPT !.pc = "start"]
    /\ UNCHANGED <<hookFrame, buildProperties, clones, unoptimize, executed>>

\* utils.ExecCommand: command.Start()
StartHook ==
    /\ hookRunner.pc = "start"
    /\ LET recipe == hookRunner.recipes[hookRunner.idx]
       IN  executed' = Append(executed,
                              [recipe |-> recipe,
                               command |-> PrepareCommandForRecipe(HookProperties,
                                                                   recipe),
                               event |-> "start"])
    /\ hookRunner' = [hookRunner EXCEPT !.pc = "wait"]
    /\ UNCHANGED <<hookFrame, buildProperties, clones, unoptimize>>

\* The error of a command is dropped.
ExecErrorIgnored(command) == FALSE

\* The err of utils.ExecCommand is not nil: the command exited with an error.
ExecError(command) == command \in failing

\* utils.ExecCommand: command.Wait(); a failing command ends Run.
WaitHook ==
    /\ hookRunner.pc = "wait"
    /\ LET recipe == hookRunner.recipes[hookRunner.idx]
           command == PrepareCommandForRecipe(HookProperties, recipe)
       IN  /\ executed' = Append(executed, [recipe |-> recipe, command |-> command,
                                            event |-> "exit"])
           /\ hookRunner' =
                  IF ExecError(command)
                  THEN HookReturn("run")
                  ELSE [hookRunner EXCEPT !.pc = "prepare", !.idx = @ + 1]
    /\ UNCHANGED <<hookFrame, buildProperties, clones, unoptimize>>

RecipeByPrefixSuffixRunner == FindRecipes \/ PrepareHook \/ StartHook \/ WaitHook

HookInit ==
    /\ sketchIncludes = <<>>
    /\ hasVariant = FALSE
    /\ DiscoveryIdle
    /\ stage = "RecipeByPrefixSuffixRunner"
    /\ cancelRequested = FALSE
    /\ \E mode \in BuildModes :
          /\ compilationDatabaseOn = mode.database
          /\ onlyUpdateCompilationDatabase = mode.onlyUpdate
    /\ codeModelBuilder \in BOOLEAN
    /\ jobs = 0
    /\ disk = <<>>
    /\ diskBefore = disk
    /\ buildProperties \in PropertyFiles
    /\ clones = NoClones
    /\ unoptimize = FALSE
    /\ failing \in {{}} \cup {{command} : command \in Patterns(buildProperties)}
    /\ executed = <<>>
    /\ CompileIdle
    /\ CoreIdle
    /\ upToDateResult = NoCheck
    /\ CallsIdle
    /\ \E prefix \in {HOOKS_PREBUILD, HOOKS_SKETCH_PREBUILD} :
          hookRunner = [pc |-> "find", prefix |-> prefix, recipes |-> <<>>,
                        idx |-> 0, err |-> "none"]

HookNext == RecipeByPrefixSuffixRunner

HookSpec == HookInit /\ [][HookNext]_vars

-----------------------------------------------------------------------------
(* The core: CoreBuilder.Run, compileCore and ArchiveCompiledFiles.         *)

\* buildPath.JoinPath(paths.New("core.a"))
CoreArchive == "build/core/core.a"

\* buildCachePath.Join(archivedCoreName)
TargetArchivedCore == "cache/core.a"

\* findAllFilesInFolder of the core folder.
CoreFiles == CoreSources

\* CoreOrReferencedCoreHasChanged, for a core that references no other core:
\* the target is missing, or a file of the core is missing or newer than it.
CoreOrReferencedCoreHasChanged(d, files, targetFile) ==
    IF Stat(d, targetFile).stat = "ok"
    THEN \E file \in files :
            \/ Stat(d, file).stat # "ok"
            \/ Stat(d, file).mtime > Stat(d, targetFile).mtime
    ELSE TRUE

\* The cached archive is used whenever the core is unchanged and the build is
\* not a clean one.
CanUseUnchangedCore ==
    /\ ~clean
    /\ ~CoreOrReferencedCoreHasChanged(disk, CoreFiles, TargetArchivedCore)

\* canUseArchivedCore
CanUseArchivedCore ==
    /\ ~onlyUpdateCompilationDatabase
    /\ ~clean
    /\ ~CoreOrReferencedCoreHasChanged(disk, CoreFiles, TargetArchivedCore)

\* An archive that is there is never rebuilt.
RebuildNever(d, archiveFilePath, objectFilesToArchive) == FALSE

\* rebuildArchive: an object is missing or newer than the archive.
RebuildArchive(d, archiveFilePath, objectFilesToArchive) ==
    \E i \in 1..Len(objectFilesToArchive) :
        \/ Stat(d, objectFilesToArchive[i]).stat # "ok"
        \/ Stat(d, objectFilesToArchive[i]).mtime > Stat(d, archiveFilePath).mtime

\* The core as a build finds it.  The sources are from time 2; an earlier
\* build left its objects and its archive at time 3, or an archive from time
\* 2 that is older than the objects; the cached archive is from time 3, or
\* from time 1 and older than the sources.
CoreDisks ==
    { [p \in CoreSources \cup {ObjectFile(s) : s \in CoreSources}
             \cup {DepsFile(s) : s \in CoreSources}
             \cup {CoreArchive, TargetArchivedCore} |->
          IF p \in CoreSources THEN File(2, <<>>)
          ELSE IF \E s \in CoreSources : p = ObjectFile(s)
          THEN IF objects THEN File(3, <<>>) ELSE NoFile
          ELSE IF \E s \in CoreSources : p = DepsFile(s)
          THEN IF objects
               THEN File(3, CompilerDepRows(CHOOSE s \in CoreSources : p = DepsFile(s)))
               ELSE NoFile
          ELSE IF p = CoreArchive THEN archive
          ELSE cached] :
        objects \in BOOLEAN,
        archive \in {NoFile, File(3, <<>>), File(2, <<>>)},
        cached \in {NoFile, File(3, <<>>), File(1, <<>>)} }

coreFrame ==
    <<discoveryVars, stage, onlyUpdateCompilationDatabase, codeModelBuilder,
      compilationDatabaseOn, jobs, failing, cancelRequested, callVars, unoptimize,
      hookRunner, clean, coreBuildCachePath>>

compileFrame ==
    <<feeder, closed, worker, objectFiles, errorsList, objectFilesMux, errorsMux,
      compilationDatabase, compiled, invocations, collected, returned, sent,
      unsortedSeen>>

\* compileCore up to CompileFiles, for a platform without a variant folder:
\* the cached archive is returned when it can be used, else the core folder
\* is compiled.
CoreBuilderRun ==
    /\ stage = "CoreBuilder"
    /\ core.pc = "start"
    /\ IF coreBuildCachePath /\ CanUseArchivedCore
       THEN /\ core' = [pc |-> "returned", archiveFile |-> TargetArchivedCore,
                        err |-> "nil"]
            /\ UNCHANGED cfPc
       ELSE /\ core' = [core EXCEPT !.pc = "compile"]
            /\ cfPc' = ".S"
    /\ buildProperties' = StageProperties(Heap).ctx
    /\ clones' = StageProperties(Heap).clones
    /\ UNCHANGED <<coreFrame, compileFrame, disk, diskBefore, executed, archiver,
                   coreBuilds>>

\* CompileFiles has returned: its error ends compileCore, else
\* ArchiveCompiledFiles is called with the objects of the core.
CoreCompiled ==
    /\ core.pc = "compile"
    /\ cfPc \in {"done", "failed"}
    /\ IF cfPc = "failed"
       THEN /\ core' = [core EXCEPT !.pc = "returned", !.err = returned.err]
            /\ UNCHANGED archiver
       ELSE /\ core' = [core EXCEPT !.pc = "archive"]
            /\ archiver' = [pc |-> "stat", objectFiles |-> returned.objectFiles,
                            idx |-> 1, err |-> "none", found |-> disk,
                            executedBefore |-> Len(executed)]
    /\ UNCHANGED <<coreFrame, buildProperties, clones, cfPc, compileFrame, disk, diskBefore, executed,
                   coreBuilds>>

\* ArchiveCompiledFiles up to its loop: nothing is done in only-update mode;
\* an archive that no object is newer than is kept, another one is removed.
ArchiveStat ==
    /\ archiver.pc = "stat"
    /\ IF onlyUpdateCompilationDatabase
       THEN /\ archiver' = [archiver EXCEPT !.pc = "returned", !.err = "nil"]
            /\ UNCHANGED disk
       ELSE IF Stat(disk, CoreArchive).stat = "ok"
       THEN IF RebuildArchive(disk, CoreArchive, archiver.objectFiles)
            THEN /\ disk' = [disk EXCEPT ![CoreArchive] = NoFile]
                 /\ archiver' = [archiver EXCEPT !.pc = "run"]
            ELSE /\ archiver' = [archiver EXCEPT !.pc = "returned", !.err = "nil"]
                 /\ UNCHANGED disk
       ELSE /\ archiver' = [archiver EXCEPT !.pc = "run"]
            /\ UNCHANGED disk
    /\ UNCHANGED <<coreFrame, buildProperties, clones, cfPc, compileFrame, diskBefore, executed, core,
                   coreBuilds>>

\* One turn of the loop: the archive recipe is run on the next object, which
\* puts it into the archive; an error ends the loop.
ArchiveRun ==
    /\ archiver.pc = "run"
    /\ IF archiver.idx > Len(archiver.objectFiles)
       THEN /\ archiver' = [archiver EXCEPT !.pc = "returned", !.err = "nil"]
            /\ UNCHANGED <<disk, executed, buildProperties, clones>>
       ELSE LET objectFile == archiver.objectFiles[archiver.idx]
                heap == ArchiveProperties(Heap, CoreArchive, objectFile)
                properties == MapOf(heap, Clone(StageMap, ArchiverMap))
            IN  /\ buildProperties' = heap.ctx
                /\ clones' = heap.clones
                /\ IF PrepareCommandForRecipe(properties, RECIPE_AR_PATTERN) = "error"
                   THEN /\ archiver' = [archiver EXCEPT !.pc = "returned",
                                                        !.err = RECIPE_AR_PATTERN]
                        /\ UNCHANGED <<disk, executed>>
                   ELSE /\ executed' = Append(executed,
                                              [recipe |-> RECIPE_AR_PATTERN,
                                               command |-> objectFile,
                                               event |-> "run"])
                        /\ IF objectFile \in failing
                           THEN /\ archiver' = [archiver EXCEPT !.pc = "returned",
                                                                !.err = objectFile]
                                /\ UNCHANGED disk
                           ELSE /\ archiver' = [archiver EXCEPT !.idx = @ + 1]
                                /\ disk' = [disk EXCEPT
                                               ![CoreArchive] = File(6, <<>>)]
    /\ UNCHANGED <<coreFrame, cfPc, compileFrame, diskBefore, core, coreBuilds>>

\* archiveFile.CopyTo(targetArchivedCore): an archive that is not there is
\* not copied, and compileCore goes on.
CopyTo(d, archiveFile, target) ==
    IF Stat(d, archiveFile).stat = "ok"
    THEN [d EXCEPT ![target] = File(6, <<>>)]
    ELSE d

\* The end of compileCore: the archive is copied to the cache when
\* targetArchivedCore != nil && !ctx.OnlyUpdateCompilationDatabase &&
\* coreModel != nil.
CoreArchived ==
    /\ core.pc = "archive"
    /\ archiver.pc = "returned"
    /\ IF archiver.err # "nil"
       THEN /\ core' = [core EXCEPT !.pc = "returned", !.err = archiver.err]
            /\ UNCHANGED disk
       ELSE /\ core' = [pc |-> "returned", archiveFile |-> CoreArchive,
                        err |-> "nil"]
            /\ disk' = IF /\ coreBuildCachePath
                          /\ ~onlyUpdateCompilationDatabase
                          /\ LibraryModel
                       THEN CopyTo(disk, CoreArchive, TargetArchivedCore)
                       ELSE disk
    /\ UNCHANGED <<coreFrame, buildProperties, clones, cfPc, compileFrame, diskBefore, executed, archiver,
                   coreBuilds>>

\* The builds of one core in a row.
MaxBuilds == 2

\* The build is over and the next one starts, with the same options, on the
\* files this one left.
NextBuild ==
    /\ stage = "CoreBuilder"
    /\ core.pc = "returned"
    /\ core.err = "nil"
    /\ coreBuilds.n < MaxBuilds
    /\ coreBuilds' = [n |-> coreBuilds.n + 1,
                      archives |-> Append(coreBuilds.archives, core.archiveFile),
                      compiledBefore |-> compiled]
    /\ core' = [pc |-> "start", archiveFile |-> NilPath, err |-> "none"]
    /\ archiver' = ArchiverOff
    /\ cfPc' = "idle"
    /\ collected' = <<>>
    /\ returned' = [err |-> "none", objectFiles |-> <<>>]
    /\ sent' = <<>>
    /\ diskBefore' = disk
    /\ clones' = NoClones
    /\ UNCHANGED <<coreFrame, buildProperties, disk, executed, feeder, closed, worker, objectFiles,
                   errorsList, objectFilesMux, errorsMux, compilationDatabase,
                   compiled, invocations, unsortedSeen>>

ArchiveCompiledFiles == ArchiveStat \/ ArchiveRun

CoreBuilder ==
    \/ CoreBuilderRun
    \/ CoreCompiled
    \/ ArchiveCompiledFiles
    \/ CoreArchived
    \/ NextBuild

\* The platforms of the core: one whose commands succeed, optimized or not,
\* one with a command that fails, and one with a recipe missing or empty.
CorePlatforms ==
    [recipes : {PlatformRecipes}, failing : {{}}, unoptimize : BOOLEAN]
        \cup [recipes : {PlatformRecipes},
              failing : {{"core/w.cpp"}, {ObjectFile("core/x.cpp")}},
              unoptimize : {FALSE}]
        \cup [recipes : {Without(PlatformRecipes, RECIPE_CPP_PATTERN),
                         WithEmpty(PlatformRecipes, RECIPE_CPP_PATTERN),
                         Without(PlatformRecipes, RECIPE_AR_PATTERN)},
              failing : {{}}, unoptimize : {FALSE}]

CoreBuilderInit ==
    /\ sketchIncludes = <<>>
    /\ hasVariant = FALSE
    /\ DiscoveryIdle
    /\ stage = "CoreBuilder"
    /\ cancelRequested = FALSE
    /\ \E mode \in BuildModes :
          /\ compilationDatabaseOn = mode.database
          /\ onlyUpdateCompilationDatabase = mode.onlyUpdate
    /\ codeModelBuilder \in BOOLEAN
    /\ jobs = 1
    /\ disk \in CoreDisks
    /\ diskBefore = disk
    /\ \E platform \in CorePlatforms :
          /\ buildProperties = platform.recipes \o PlatformFlags("-DSYSPROGS")
          /\ failing = platform.failing
          /\ unoptimize = platform.unoptimize
    /\ executed = <<>>
    /\ CompileIdle
    /\ HookRunnerOff
    /\ clean \in BOOLEAN
    /\ coreBuildCachePath \in BOOLEAN
    /\ core = [pc |-> "start", archiveFile |-> NilPath, err |-> "none"]
    /\ coreBuilds = [n |-> 1, archives |-> <<>>, compiledBefore |-> compiled]
    /\ archiver = ArchiverOff
    /\ upToDateResult = NoCheck
    /\ CallsIdle

-----------------------------------------------------------------------------
(* The prototypes of the sketch: CTagsRunner and PrototypesAdder, as        *)
(* ContainerAddPrototypes runs them.                                        *)

\* A row of the merged sketch, and a tag of the output of ctags.
Row(text, n) == [text |-> text, n |-> n]

Tag(kind, name, line) == [kind |-> kind, name |-> name, line |-> line]

\* The sketches of the model: the rows of the .ino file and the tags ctags
\* prints for them.
Sketches ==
    {[rows |-> <<>>, tags |-> <<>>],
     [rows |-> <<Row("int x;", 0)>>, tags |-> <<Tag("variable", "x", 1)>>],
     [rows |-> <<Row("void setup();", 0), Row("void setup() {}", 0)>>,
      tags |-> <<Tag("prototype", "setup", 1), Tag("function", "setup", 2)>>],
     [rows |-> <<Row("void setup() {}", 0), Row("void loop() {}", 0)>>,
      tags |-> <<Tag("function", "setup", 1), Tag("function", "loop", 2)>>],
     [rows |-> <<Row("void loop();", 0), Row("void setup() {}", 0),
                 Row("void loop() {}", 0)>>,
      tags |-> <<Tag("prototype", "loop", 1), Tag("function", "setup", 2),
                 Tag("function", "loop", 3)>>]}

\* What the merger puts in front of the sketch: the include of Arduino.h and
\* the #line directive, which are ctx.LineOffset rows.
MergedHeader == <<Row("#include <Arduino.h>", 0), Row("#line", 1)>>

\* The key of a property below a root, "" when it is not below it.
Under(root, key) ==
    CASE root = "tools" /\ key = "tools.ctags.path" -> "ctags.path"
      [] root = "tools" /\ key = "tools.ctags.pattern" -> "ctags.pattern"
      [] root = "tools" /\ key = "tools.avrdude.pattern" -> "avrdude.pattern"
      [] root = "ctags" /\ key = "ctags.path" -> "path"
      [] root = "ctags" /\ key = "ctags.pattern" -> "pattern"
      [] OTHER -> ""

\* properties.Map.SubTree
SubTree(properties, root) ==
    LET below == SelectSeq(properties, LAMBDA p : Under(root, p.key) # "")
    IN  [i \in 1..Len(below) |-> Property(Under(root, below[i].key), below[i].value)]

\* properties.Map.Merge: every key of the other map is set.
RECURSIVE Merge(_, _, _)
Merge(heap, map, other) ==
    IF other = <<>> THEN heap
    ELSE Merge(Set(heap, map, Head(other).key, Head(other).value), map, Tail(other))

\* CTagsRunner.Run on its clone: the maps after Merge and SetPath.
CTagsProperties(heap, ctagsTargetFilePath) ==
    LET ctagsProperties == Clone(CtxMap, CTagsMap)
        heap0 == Cloned(heap, CtxMap, CTagsMap)
        heap1 == Merge(heap0, ctagsProperties,
                       SubTree(SubTree(MapOf(heap0, CtxMap), "tools"), "ctags"))
    IN  Set(heap1, ctagsProperties, "source_file", ctagsTargetFilePath)

\* Every function gets a prototype, declared or not.
PrototypeForEvery(tags, tag) == FALSE

\* The parser discards a function that already has a prototype declaration.
HasPrototype(tags, tag) ==
    \E i \in 1..Len(tags) : tags[i].kind = "prototype" /\ tags[i].name = tag.name

\* parser.GeneratePrototypes: a prototype for each function that is left, and
\* the line of the first function, -1 without a function.
GeneratePrototypes(tags) ==
    LET functions == SelectSeq(tags, LAMBDA tag : tag.kind = "function")
        eligible == SelectSeq(functions, LAMBDA tag : ~HasPrototype(tags, tag))
    IN  [protos |-> [i \in 1..Len(eligible) |->
                        [line |-> eligible[i].line, name |-> eligible[i].name]],
         line |-> IF functions = <<>> THEN -1 ELSE functions[1].line]

\* The block of prototypes: a #line directive before each prototype and one
\* after the block; nothing without a prototype.
RECURSIVE JoinPrototypes(_)
JoinPrototypes(prototypes) ==
    IF prototypes = <<>> THEN <<>>
    ELSE <<Row("#line", Head(prototypes).line), Row(Head(prototypes).name, 0)>>
             \o JoinPrototypes(Tail(prototypes))

ComposePrototypeSection(line, prototypes) ==
    IF prototypes = <<>> THEN <<>>
    ELSE JoinPrototypes(prototypes) \o <<Row("#line", line)>>

\* The block spliced into the rows of the source after the first rows.
Splice(source, rows, section) ==
    SubSeq(source, 1, rows) \o section \o SubSeq(source, rows + 1, Len(source))

protoFrame ==
    <<discoveryVars, ctxVars, disk, compileVars, upToDateResult, archiveName,
      unoptimize, hookRunner, coreVars, queueLog>>

\* CTagsRunner.Run: the pattern of ctags is looked up in a clone of the
\* properties and the command is run; its output is parsed, and the
\* prototypes and their line are stored in the context.
CTagsRunnerRun ==
    /\ stage = "ContainerAddPrototypes"
    /\ addPrototypes.pc = "CTagsRunner"
    /\ LET heap == CTagsProperties(Heap, "ctags_target_for_gcc_minus_e.cpp")
           pattern == Get(MapOf(heap, Clone(CtxMap, CTagsMap)), "pattern")
           generated == GeneratePrototypes(addPrototypes.tags)
       IN  /\ buildProperties' = heap.ctx
           /\ clones' = heap.clones
           /\ IF pattern = ""
              THEN /\ addPrototypes' = [addPrototypes EXCEPT
                                           !.pc = "returned",
                                           !.err = "ctags pattern is missing"]
                   /\ UNCHANGED executed
              ELSE /\ executed' = Append(executed,
                                         [recipe |-> "tools.ctags.pattern",
                                          command |-> pattern, event |-> "run"])
                   /\ addPrototypes' =
                          IF pattern \in failing
                          THEN [addPrototypes EXCEPT !.pc = "returned",
                                                     !.err = pattern]
                          ELSE [addPrototypes EXCEPT
                                   !.pc = "PrototypesAdder",
                                   !.CTagsOutput = addPrototypes.tags,
                                   !.PrototypesLineWhereToInsert =
                                       IF generated.line # -1
                                       THEN generated.line ELSE @,
                                   !.Prototypes = generated.protos]
    /\ UNCHANGED protoFrame

\* PrototypesAdder.Run: the section of the prototypes is composed and
\* spliced into the source at the line of the first function; nothing is
\* done for a line past the end of the source.
PrototypesAdderRun ==
    /\ stage = "ContainerAddPrototypes"
    /\ addPrototypes.pc = "PrototypesAdder"
    /\ LET firstFunctionLine == addPrototypes.PrototypesLineWhereToInsert
           insertionLine == firstFunctionLine + addPrototypes.LineOffset - 1
           prototypeSection == ComposePrototypeSection(firstFunctionLine,
                                                       addPrototypes.Prototypes)
       IN  addPrototypes' =
               IF firstFunctionLine > Len(addPrototypes.Source) - 1
               THEN [addPrototypes EXCEPT !.pc = "returned", !.err = "nil"]
               ELSE [addPrototypes EXCEPT
                        !.pc = "returned", !.err = "nil",
                        !.PrototypesSection = prototypeSection,
                        !.Source = Splice(@, insertionLine, prototypeSection)]
    /\ UNCHANGED <<protoFrame, buildProperties, clones, executed>>

ContainerAddPrototypes == CTagsRunnerRun \/ PrototypesAdderRun

\* The properties of ctags in a platform.
CTagsPlatforms ==
    {<<Property("tools.avrdude.pattern", "avrdude"),
       Property("source_file", "sketch.ino.cpp"),
       Property("tools.ctags.path", "/tools/ctags")>> \o pattern :
        pattern \in {<<>>, <<Property("tools.ctags.pattern", "")>>,
                     <<Property("tools.ctags.pattern", "ctags -u")>>}}

ContainerAddPrototypesInit ==
    /\ sketchIncludes = <<>>
    /\ hasVariant = FALSE
    /\ DiscoveryIdle
    /\ stage = "ContainerAddPrototypes"
    /\ cancelRequested = FALSE
    /\ \E mode \in BuildModes :
          /\ compilationDatabaseOn = mode.database
          /\ onlyUpdateCompilationDatabase = mode.onlyUpdate
    /\ codeModelBuilder = FALSE
    /\ jobs = 0
    /\ disk = <<>>
    /\ diskBefore = disk
    /\ buildProperties \in CTagsPlatforms
    /\ unoptimize = FALSE
    /\ HookRunnerOff
    /\ failing \in {{}, {"ctags -u"}}
    /\ executed = <<>>
    /\ CompileIdle
    /\ CoreIdle
    /\ upToDateResult = NoCheck
    /\ archiveName = NoName
    /\ queueLog = NoQueueLog
    /\ \E sketch \in Sketches, line \in {0, 2} :
          addPrototypes =
              [NoPrototypes EXCEPT
                  !.pc = "CTagsRunner",
                  !.tags = sketch.tags,
                  !.Source = MergedHeader \o sketch.rows,
                  !.sourceBefore = MergedHeader \o sketch.rows,
                  !.LineOffset = Len(MergedHeader),
                  !.PrototypesLineWhereToInsert = line]

-----------------------------------------------------------------------------
(* The name of the cached core archive: GetCachedCoreArchiveFileName.       *)

\* A board name of 60 characters: the plain file name would pass 100.
LongBoard == "a_board_whose_name_has_sixty_characters_to_go_past_the_limit"

\* len of a piece of a string.
PieceLen(piece) ==
    CASE piece \in {"pkg", "avr", "uno", "-Os", "-O0"} -> 3
      [] piece \in {"cores", "core_"} -> 5
      [] piece = "avr-Os" -> 6
      [] piece = ".a" -> 2
      [] piece = LongBoard -> 60
      [] OTHER -> 1

RECURSIVE StringLen(_)
StringLen(str) == IF str = <<>> THEN 0 ELSE PieceLen(Head(str)) + StringLen(Tail(str))

\* Every input has the same digest.
MD5Collides(data) == <<"md5(", ")">>

\* utils.MD5Sum: 32 hexadecimal digits; no two inputs of the model share a
\* digest.
MD5Sum(data) == <<"md5(">> \o data \o <<")">>

\* hex.EncodeToString of the 16 bytes of a digest.
HexDigits == 32

\* The working directory, and Path.Abs.
WorkingDir == <<"/", "cores", "/">>

Abs(path) == IF path # <<>> /\ Head(path) = "/" THEN path ELSE WorkingDir \o path

GetCachedCoreArchiveFileName(fqbn, optimizationFlags, coreFolder) ==
    LET fqbnToUnderscore == Replace(Replace(fqbn, <<":">>, <<"_">>),
                                    <<"=">>, <<"_">>)
        hash == MD5Sum(Abs(coreFolder.path) \o optimizationFlags)
        len == PieceLen("core_") + StringLen(fqbnToUnderscore) + PieceLen("_")
               + HexDigits + PieceLen(".a")
    IN  IF len > 100
        THEN <<"core_">> \o MD5Sum(fqbnToUnderscore \o <<"_">> \o hash) \o <<".a">>
        ELSE <<"core_">> \o fqbnToUnderscore \o <<"_">> \o hash \o <<".a">>

\* The boards, the optimization flags and the core folders of the model; a
\* core folder is a path and what is in it.
FQBNs ==
    {<<"pkg", ":", "avr", ":", "uno">>,
     <<"pkg", ":", "avr", ":", "uno", "_", "x">>,
     <<"pkg", ":", "avr", "_", "uno", ":", "x">>,
     <<"pkg", ":", "avr", ":", "uno", ":", "x", "=", "y">>,
     <<"pkg", ":", "avr", ":", LongBoard>>}

OptimizationFlags == {<<>>, <<"-Os">>, <<"-O0">>}

CoreFolders ==
    [path : {<<"/", "cores", "/", "avr">>, <<"avr">>, <<"/", "cores", "/", "avr-Os">>,
             <<"/", "cores", "/", "avr", "-Os">>},
     contents : {"as installed", "edited"}]

NameInputs == [fqbn : FQBNs, flags : OptimizationFlags, coreFolder : CoreFolders]

\* Both names are computed.
GetNames ==
    /\ stage = "GetCachedCoreArchiveFileName"
    /\ archiveName.nameA = <<>>
    /\ archiveName' =
           [archiveName EXCEPT
               !.nameA = GetCachedCoreArchiveFileName(archiveName.a.fqbn,
                                                      archiveName.a.flags,
                                                      archiveName.a.coreFolder),
               !.nameB = GetCachedCoreArchiveFileName(archiveName.b.fqbn,
                                                      archiveName.b.flags,
                                                      archiveName.b.coreFolder)]
    /\ UNCHANGED <<discoveryVars, ctxVars, disk, executed, compileVars, hookVars,
                   coreVars, upToDateResult, addPrototypes, queueLog>>

NameInit ==
    /\ sketchIncludes = <<>>
    /\ hasVariant = FALSE
    /\ DiscoveryIdle
    /\ stage = "GetCachedCoreArchiveFileName"
    /\ cancelRequested = FALSE
    /\ onlyUpdateCompilationDatabase = FALSE
    /\ codeModelBuilder = FALSE
    /\ compilationDatabaseOn = FALSE
    /\ jobs = 0
    /\ disk = <<>>
    /\ diskBefore = disk
    /\ failing = {}
    /\ executed = <<>>
    /\ CompileIdle
    /\ HookIdle
    /\ CoreIdle
    /\ upToDateResult = NoCheck
    /\ \E a, b \in NameInputs :
          archiveName = [a |-> a, b |-> b, nameA |-> <<>>, nameB |-> <<>>]
    /\ addPrototypes = NoPrototypes
    /\ queueLog = NoQueueLog

NameNext == GetNames

NameSpec == NameInit /\ [][NameNext]_vars

-----------------------------------------------------------------------------
(* The stages of a build, each run from the states it may find.             *)

BuildInit ==
    SketchBuilderInit \/ HookInit \/ CoreBuilderInit \/ ContainerAddPrototypesInit

BuildNext ==
    \/ SketchBuilderRun
    \/ CompileFiles
    \/ RecipeByPrefixSuffixRunner
    \/ CoreBuilder
    \/ ContainerAddPrototypes

BuildSpec == BuildInit /\ [][BuildNext]_vars

\* The sketch compiled on its own, every goroutine scheduled again and again:
\* the feeder and each job runner take their next step when they can, and a
\* child process that was started exits.
PoolNext == SketchBuilderRun \/ CompileFiles

PoolFairness ==
    /\ WF_vars(SketchBuilderRun)
    /\ WF_vars(SpawnRunners)
    /\ WF_vars(Feeder)
    /\ WF_vars(ReturnObjectFiles)
    /\ \A w \in Workers : WF_vars(Runner(w))

\* A plain build of a sketch whose assembly source and whose c.cpp have no
\* object yet; the object of a.cpp is up to date, stale or unreadable, and
\* the compiler fails on no source or on one.
PoolInit ==
    /\ SketchBuilderInit
    /\ ~codeModelBuilder
    /\ ~compilationDatabaseOn
    /\ Stat(disk, ObjectFile("sketch/c.cpp")) = NoFile
    /\ Stat(disk, ObjectFile("sketch/b.S")) = NoFile

PoolSpec == PoolInit /\ [][PoolNext]_vars /\ PoolFairness

\* The caller asks for the running build to be cancelled.  No field of the
\* context holds the request and no code of the builder reads it.
RequestCancel ==
    /\ ~cancelRequested
    /\ pc # "idle" \/ stage # "none"
    /\ cancelRequested' = TRUE
    /\ UNCHANGED <<discoveryVars, stage, onlyUpdateCompilationDatabase,
                   codeModelBuilder, compilationDatabaseOn, jobs, failing,
                   diskBefore, disk, executed, compileVars, callVars, hookVars,
                   coreVars>>

\* A build that may be cancelled at any moment: the discovery, the hooks, or
\* the sketch compiled by one job runner.
CancelInit ==
    \/ Init
    \/ HookInit
    \/ SketchBuilderInit /\ jobs = 1 /\ ~codeModelBuilder

CancelNext ==
    \/ stage = "none" /\ Next
    \/ SketchBuilderRun
    \/ CompileFiles
    \/ RecipeByPrefixSuffixRunner
    \/ RequestCancel

CancelSpec == CancelInit /\ [][CancelNext]_vars

\* The core on its own, and the prototypes on their own.
CoreNext == CompileFiles \/ CoreBuilder

CoreSpec == CoreBuilderInit /\ [][CoreNext]_vars

PrototypeNext == ContainerAddPrototypes

PrototypeSpec == ContainerAddPrototypesInit /\ [][PrototypeNext]_vars

-----------------------------------------------------------------------------
(* Properties.                                                             *)

IsPrefix(s, t) == Len(s) <= Len(t) /\ SubSeq(t, 1, Len(s)) = s

Running == pc \notin {"idle", "done", "failed"}

PrecompiledHeaders ==
    UNION {HeadersIn(SourceDir(l)) :
               l \in {m \in Libraries : Precompiled(m) /\ PrecompiledWithSources(m)}}

\* C1: journal round trip.  In a run that repeats a successful run started
\* without a journal, nothing edited in between, the preprocessor is run on
\* no file that ObjFileIsUpToDate reports as up to date, and on success the
\* journal file holds the entries the first run left, in the same order.
C1_JournalRoundTrip ==
    replay =>
        /\ \A r \in ppLog : ~r.unchanged
        /\ pc = "done" => cacheFile = prevFile

\* C2: cache invalidation monotonicity.  After a run in which the journal was
\* invalidated, the journal written is a prefix of the journal the run found
\* followed by the entries the run observed after that prefix, in order.
C2_PrefixThenAppended ==
    (pc = "done" /\ ~cache.valid) =>
        /\ cacheFile.state = "ok"
        /\ \E k \in 0..Len(prevFile.entries) :
              /\ k <= Len(observedLog)
              /\ cacheFile.entries =
                     SubSeq(prevFile.entries, 1, k)
                         \o SubSeq(observedLog, k + 1, Len(observedLog))

C2_Witness ==
    /\ pc = "done"
    /\ ~cache.valid
    /\ prevFile.state = "ok"
    /\ cache.next >= 3
    /\ cache.next < Len(prevFile.entries)
    /\ Len(cacheFile.entries) > cache.next
    /\ cacheFile.entries # prevFile.entries

\* C3: within a run, once the cache's valid flag is false it stays false.
C3_ValidityMonotonic ==
    [][(pc # "idle" /\ ~cache.valid) => ~cache'.valid]_vars

C3_Witness ==
    /\ pc = "scan"
    /\ prevFile.state = "ok"
    /\ ~cache.valid
    /\ unchanged
    /\ cache.next < Len(prevFile.entries)
    /\ prevFile.entries[cache.next + 1].Sourcefile = sourceFile

\* C4: the journal is consumed strictly in order.  While the cache is valid
\* the cursor is within 0..len(entries); the cursor only moves by +1, in a
\* step that passes to ExpectEntry exactly the entry at the cursor; the
\* entries before the cursor are kept; ExpectFile on an entry about another
\* file, or on no entry, invalidates and truncates at the cursor.
C4_ConsumedInOrder ==
    [][ (pc # "idle" /\ pc' # "idle") =>
          /\ cache.valid => (0 <= cache.next /\ cache.next <= Len(cache.entries))
          /\ cache'.valid => (0 <= cache'.next /\ cache'.next <= Len(cache'.entries))
          /\ cache'.next # cache.next =>
                /\ cache'.next = cache.next + 1
                /\ cache.valid /\ cache'.valid
                /\ cache.next < Len(cache.entries)
                /\ observedLog' = Append(observedLog, cache.entries[cache.next + 1])
          /\ Len(cache'.entries) >= cache.next
          /\ SubSeq(cache'.entries, 1, cache.next) = SubSeq(cache.entries, 1, cache.next)
          /\ ( /\ pc = "expectFile"
               /\ cache.valid
               /\ \/ cache.next >= Len(cache.entries)
                  \/ cache.entries[cache.next + 1].Sourcefile # sourceFile )
             => /\ ~cache'.valid
                /\ cache'.next = cache.next
                /\ cache'.entries = SubSeq(cache.entries, 1, cache.next)
      ]_vars

\* The cursor has advanced over several entries and the next one names the
\* same file and include with another resolved path.
C4_Witness ==
    /\ pc = "scan"
    /\ cache.valid
    /\ cache.next >= 2
    /\ cache.next < Len(cache.entries)
    /\ ResolveLibrary(CacheNext(cache).Include) # NoLibrary
    /\ CacheNext(cache).Includepath # SourceDir(ResolveLibrary(CacheNext(cache).Include))

\* C5: after a failed discovery no journal file is left.
C5_NoJournalAfterFailure ==
    pc = "failed" => cacheFile.state = "absent"

C5_Witness ==
    /\ pc = "failed"
    /\ prevFile.state = "ok"
    /\ result = "Internal error in cache"

\* C6: no library is twice in ctx.ImportedLibraries.
C6_NoDuplicateLibraries ==
    \A i, j \in 1..Len(importedLibraries) :
        i # j => importedLibraries[i] # importedLibraries[j]

\* Two libraries imported, one of them included by two files.
C6_Witness ==
    /\ pc = "done"
    /\ sketchIncludes = <<"A.h", "B.h">>
    /\ importedLibraries = <<"A", "B">>

\* C7: during a run ctx.ImportedLibraries and ctx.IncludeFolders only grow
\* at the tail.
C7_CollectionsGrowAtTail ==
    [][ pc' # "idle" =>
          /\ IsPrefix(importedLibraries, importedLibraries')
          /\ IsPrefix(includeFolders, includeFolders') ]_vars

C7_Witness ==
    /\ Len(importedLibraries) >= 2
    /\ Len(includeFolders) >= 4

\* C8: a running discovery ends, with the queue emptied or with an error,
\* and the loop over one file ends too.
C8_DiscoveryTerminates ==
    /\ Running ~> (pc \in {"done", "failed"})
    /\ (pc \in {"expectFile", "scan"}) ~> (pc \in {"loop", "failed"})

C8_Witness ==
    /\ pc = "done"
    /\ Len(importedLibraries) = 3

\* C9, as stated: the sources of a fully precompiled library are never on
\* the work queue.
C9_PrecompiledSourcesNotEnqueued ==
    \A i \in 1..Len(queue) : ~FullyPrecompiled(queue[i])

\* C9, amended: the sources of an imported library, fully precompiled or
\* not, are queued; a file of a fully precompiled library makes
\* findIncludesUntilDone return right after ExpectFile: the preprocessor is
\* not run on it, no library is imported, the include path and the queue
\* stay as they are and no journal entry is recorded for it.
C9_PrecompiledSourcesSkipped ==
    [][ /\ (pc = "expectFile" /\ FullyPrecompiled(sourceFile)) =>
              /\ pc' = "loop"
              /\ UNCHANGED <<includeFolders, importedLibraries, queue, ppLog,
                             observedLog>>
        /\ \A r \in ppLog' : ~FullyPrecompiled(r.file)
        /\ \A i \in 1..Len(observedLog') : ~FullyPrecompiled(observedLog'[i].Sourcefile)
        /\ (pc = "scan" /\ Len(importedLibraries') > Len(importedLibraries)) =>
              LET files == LibrarySourceFiles(importedLibraries'[Len(importedLibraries')])
              IN  \A i \in 1..Len(files) : sliceContainsSourceFile(queue', files[i])
      ]_vars

C9_Witness ==
    /\ pc = "expectFile"
    /\ FullyPrecompiled(sourceFile)
    /\ "P" \in {importedLibraries[i] : i \in 1..Len(importedLibraries)}

\* C10, as stated: the journal entry of a fully precompiled library has an
\* empty include path.
C10_PrecompiledEntryEmptyPath ==
    \A i \in 1..Len(cache.entries) :
        cache.entries[i].Include \in PrecompiledHeaders =>
            cache.entries[i].Includepath \in {"", NilPath}

\* C10, amended: the journal entry of a fully precompiled library has the
\* library's source directory as include path, as for any other library.
C10_PrecompiledEntryHasSourceDir ==
    \A entries \in {cache.entries, cacheFile.entries} :
        \A i \in 1..Len(entries) :
            \A l \in Libraries :
                ( /\ Precompiled(l) /\ PrecompiledWithSources(l)
                  /\ entries[i].Include \in HeadersIn(SourceDir(l)) )
                => entries[i].Includepath = SourceDir(l)

C10_Witness ==
    /\ pc = "done"
    /\ \E i \in 1..Len(cacheFile.entries) :
          cacheFile.entries[i].Include \in PrecompiledHeaders

-----------------------------------------------------------------------------
(* Properties of the up-to-date check.                                     *)

\* The rows of the dependency file of the checked source, as read.
CheckedRows == DepRows(Stat(disk, DepsFile("sketch/a.cpp")).rows)

\* C11: ObjFileIsUpToDate returns true only if the object file and the
\* dependency file exist, the object is not older than the source nor than any
\* dependency listed in the dependency file, the first row of the dependency
\* file names the object and the second row is the path of the source.
C11_TrueOnlyIfAllHold ==
    upToDateResult.result = "true" =>
        LET source == Stat(disk, "sketch/a.cpp")
            object == Stat(disk, upToDateResult.objectFile)
            deps == Stat(disk, upToDateResult.dependencyFile)
        IN  /\ object.stat = "ok"
            /\ deps.stat = "ok"
            /\ object.mtime >= source.mtime
            /\ \A i \in 2..Len(CheckedRows) :
                   /\ StatRow(disk, CheckedRows[i]).stat = "ok"
                   /\ object.mtime >= StatRow(disk, CheckedRows[i]).mtime
            /\ Len(CheckedRows) >= 1
            /\ CheckedRows[1] = PathString(upToDateResult.objectFile) \o <<":">>
            /\ Len(CheckedRows) >= 2
            /\ CheckedRows[2] = PathString("sketch/a.cpp")

-----------------------------------------------------------------------------
(* Properties of the compile scheduler.                                    *)

\* What ObjFileIsUpToDate says of a source on the file system the stage found.
CheckBefore(source) ==
    ObjFileIsUpToDate(diskBefore, source, ObjectFile(source), DepsFile(source))

\* The source or a header of its dependency file is newer than the object.
TouchedBefore(source) ==
    /\ Stat(diskBefore, ObjectFile(source)).stat = "ok"
    /\ \/ Stat(diskBefore, source).mtime > Stat(diskBefore, ObjectFile(source)).mtime
       \/ /\ HeaderOf(source) # NilPath
          /\ Stat(diskBefore, HeaderOf(source)).mtime >
                 Stat(diskBefore, ObjectFile(source)).mtime

RunOver == cfPc \in {"done", "failed"}

\* C12, as stated: in one run of the compile scheduler a source that is newer
\* than its object, or has a header in its dependency file that is, is
\* compiled exactly once, and an up-to-date source is not compiled.
C12_StaleCompiledOnce ==
    RunOver =>
        \A s \in SketchSources :
            /\ TouchedBefore(s) => compiled[s] = 1
            /\ CheckBefore(s) = "true" => compiled[s] = 0

\* C12, amended: the compile command is run at most once on a source, only on
\* a source that was stale, and never in only-update mode or with a code
\* model; in a run without these that ends without error every stale source
\* was compiled exactly once.
C12_StaleCompiledOnceInNormalRun ==
    \A s \in SketchSources :
        /\ compiled[s] <= 1
        /\ compiled[s] = 1 =>
               /\ CheckBefore(s) = "false"
               /\ ~onlyUpdateCompilationDatabase
               /\ ~codeModelBuilder
        /\ ( /\ cfPc = "done"
             /\ ~onlyUpdateCompilationDatabase
             /\ ~codeModelBuilder
             /\ CheckBefore(s) = "false" ) => compiled[s] = 1

C12_Witness ==
    /\ cfPc = "done"
    /\ TouchedBefore("sketch/c.cpp") /\ compiled["sketch/c.cpp"] = 1
    /\ TouchedBefore("sketch/a.cpp") /\ compiled["sketch/a.cpp"] = 1
    /\ CheckBefore("sketch/b.S") = "true" /\ compiled["sketch/b.S"] = 0

\* C13, as stated: no source is handed to a job runner once an error is in the
\* error list.
C13_NoSendAfterError ==
    \A i \in 1..Len(sent) : ~sent[i].gotError

\* C13, amended: the feeder goes on to send a source only from a check that
\* found the error list empty; the source of that check is still sent when an
\* error is recorded between the check and the send, and only that one.
C13_NoSendAfterErrorSeen ==
    /\ [][(feeder.pc = "check" /\ feeder'.pc = "send") => Len(errorsList) = 0]_vars
    /\ [][ \A i \in 1..Len(sent') :
               (sent'[i].gotError /\ i > Len(sent)) => feeder.pc = "send" ]_vars
    /\ [](Cardinality({i \in 1..Len(sent) : sent[i].gotError}) <= 1)

C13_Witness ==
    /\ RunOver
    /\ \E i \in 1..Len(sent) : sent[i].gotError

\* C14: compileFilesWithRecipe returns only after every job runner has exited
\* and every job handed out has been run to its end; with a failed job it
\* returns the first error of the error list and no object files.
C14_ReturnsAfterAllJobs ==
    [][ (feeder.pc = "wait" /\ feeder'.pc = "off") =>
            /\ \A w \in Workers : worker[w].pc \in {"off", "exited"}
            /\ Len(objectFiles) + Len(errorsList) = feeder.idx - 1
            /\ Len(errorsList) > 0 =>
                   /\ cfPc' = "failed"
                   /\ returned'.err = errorsList[1]
                   /\ returned'.objectFiles = <<>> ]_vars

C14_Witness ==
    /\ cfPc = "failed"
    /\ returned.err = "sketch/a.cpp"
    /\ Len(sent) = 3
    /\ jobs = 0

\* The object files of the sources of one extension.
ObjectFilesOf(extension) ==
    [i \in 1..Len(findFilesInFolder(SourcePath, extension)) |->
        ObjectFile(findFilesInFolder(SourcePath, extension)[i])]

Sorted(list) == \A i, j \in 1..Len(list) : i < j => ~PathLess(list[j], list[i])

\* C15, as stated: the object files CompileFiles returns are sorted by path.
C15_ReturnedSorted ==
    returned.err = "nil" => Sorted(returned.objectFiles)

\* C15, amended: the object files CompileFiles returns are those of the .S
\* sources, then of the .c sources, then of the .cpp sources, each group sorted
\* by path, whatever the order in which the jobs finished.
C15_ReturnedSortedByGroup ==
    returned.err = "nil" =>
        returned.objectFiles =
            Sort(ObjectFilesOf(".S")) \o Sort(ObjectFilesOf(".c"))
                \o Sort(ObjectFilesOf(".cpp"))

C15_Witness ==
    /\ cfPc = "done"
    /\ returned.err = "nil"
    /\ unsortedSeen

\* The sources whose job got past the up-to-date check.
PastCheck ==
    {s \in SketchSources :
        /\ \E i \in 1..Len(sent) : sent[i].source = s
        /\ ~\E w \in Workers : worker[w].source = s /\ worker[w].pc = "job"
        /\ CheckBefore(s) # "error"}

\* C16: the job runners write no shared structure without mutual exclusion,
\* so no update is lost: every job that appended its invocation to the code
\* model of the library is found there.
C16_NoLostUpdate ==
    codeModelBuilder =>
        \A s \in PastCheck :
            (\A w \in Workers : worker[w].source # s) =>
                \E i \in 1..Len(invocations) : invocations[i] = s

\* C17: with a compilation database, the command of every source whose job
\* got past the up-to-date check is recorded, up to date or stale, and no
\* compile command is run for an up-to-date object.
C17_CommandRecorded ==
    \A s \in SketchSources :
        /\ (compilationDatabaseOn /\ s \in PastCheck) => compilationDatabase[s] = 1
        /\ CheckBefore(s) = "true" => compiled[s] = 0

C17_Witness ==
    /\ compilationDatabaseOn
    /\ cfPc = "done"
    /\ CheckBefore("sketch/a.cpp") = "true"
    /\ compilationDatabase["sketch/a.cpp"] = 1
    /\ CheckBefore("sketch/c.cpp") = "false"
    /\ compilationDatabase["sketch/c.cpp"] = 1
    /\ compiled["sketch/c.cpp"] = 1


\* C18: in only-update mode the compile scheduler, the archiver and the hook
\* runner run no child command: no source is compiled, no archive recipe and
\* no hook recipe is run, the cached core archive is not written and it is
\* not what compileCore returns.  CTagsRunner, which is none of the three,
\* does not read the mode and runs ctags.
C18_OnlyUpdateRunsNothing ==
    (onlyUpdateCompilationDatabase /\ stage # "ContainerAddPrototypes") =>
        /\ executed = <<>>
        /\ \A source \in AllSources : compiled[source] = 0
        /\ Stat(disk, TargetArchivedCore) = Stat(diskBefore, TargetArchivedCore)
        /\ Stat(disk, CoreArchive) = Stat(diskBefore, CoreArchive)
        /\ core.archiveFile # TargetArchivedCore

\* compileCore has returned in only-update mode, with a cache path, a cached
\* archive newer than the core and no object on disk: both sources of the
\* core were recorded in the compilation database and the archiver was
\* called.
C18_Witness ==
    /\ onlyUpdateCompilationDatabase
    /\ stage = "CoreBuilder"
    /\ coreBuildCachePath
    /\ ~clean
    /\ ~CoreOrReferencedCoreHasChanged(diskBefore, CoreFiles, TargetArchivedCore)
    /\ Stat(diskBefore, ObjectFile("core/w.cpp")).stat = "absent"
    /\ core = [pc |-> "returned", archiveFile |-> CoreArchive, err |-> "nil"]
    /\ archiver.pc = "returned"
    /\ \A source \in CoreSources : compilationDatabase[source] = 1

\* The commands the hook runner started, in order.
Started ==
    LET starts == SelectSeq(executed, LAMBDA e : e.event = "start")
    IN  [i \in 1..Len(starts) |-> starts[i].command]

HookRunOver == hookRunner.pc = "returned"

\* C19: hook recipes numbered 01 to 11 are run in the order of their numbers,
\* whatever the order of their keys in the property file, and each is started
\* only when the one before it has exited: what was executed so far is always
\* start 01, exit 01, start 02, exit 02, and so on.
C19_PaddedHooksInOrder ==
    buildProperties \in {PaddedHooks, Reverse(PaddedHooks)} =>
        \A i \in 1..Len(executed) :
            /\ executed[i].recipe =
                   HookKey(HOOKS_SKETCH_PREBUILD, PaddedNumber((i + 1) \div 2))
            /\ executed[i].event = IF i % 2 = 1 THEN "start" ELSE "exit"

\* All eleven hooks of a file that lists them from 11 down to 01 have run.
C19_Witness ==
    /\ buildProperties = Reverse(PaddedHooks)
    /\ HookRunOver
    /\ hookRunner.err = "nil"
    /\ Started = Echo
    /\ Len(executed) = 2 * Len(Echo)

\* C20 as stated: with hooks 1 (echo a), 2 (echo b) and 10 (echo j) the
\* commands are started in the order of their numbers: a, then b, then j.
C20_UnpaddedNumericOrder ==
    buildProperties \in {UnpaddedHooks, Reverse(UnpaddedHooks)} =>
        IsPrefix(Started, <<"echo a", "echo b", "echo j">>)

\* C20: with hooks 1 (echo a), 2 (echo b) and 10 (echo j) the commands are
\* started in the order of their keys as strings, where 10 comes before 2: a,
\* then j, then b.
C20_UnpaddedStringOrder ==
    buildProperties \in {UnpaddedHooks, Reverse(UnpaddedHooks)} =>
        IsPrefix(Started, <<"echo a", "echo j", "echo b">>)

\* The three unpadded hooks have run, j before b.
C20_Witness ==
    /\ buildProperties = UnpaddedHooks
    /\ HookRunOver
    /\ hookRunner.err = "nil"
    /\ Started = <<"echo a", "echo j", "echo b">>

\* The recipes the hook runner has started and those that follow the recipe
\* at which it stands, in sorted order.
StartedRecipes == {executed[i].recipe : i \in 1..Len(executed)}

RecipesAfter(idx) ==
    {hookRunner.recipes[j] : j \in (idx + 1)..Len(hookRunner.recipes)}

\* C21: a hook whose command exits with an error is the last thing the runner
\* executes and Run returns the error of running that recipe; a recipe whose
\* command cannot be prepared is not executed and Run returns the error of
\* preparing it; in both cases no recipe that follows it in sorted order was
\* or will be executed.
C21_FailureStopsHooks ==
    /\ \A i \in 1..Len(executed) :
           (executed[i].event = "exit" /\ executed[i].command \in failing) =>
               /\ i = Len(executed)
               /\ HookRunOver
               /\ hookRunner.err = "run"
               /\ hookRunner.recipes[hookRunner.idx] = executed[i].recipe
    /\ (HookRunOver /\ hookRunner.err = "prepare") =>
           /\ PrepareCommandForRecipe(buildProperties,
                                      hookRunner.recipes[hookRunner.idx]) = "error"
           /\ hookRunner.recipes[hookRunner.idx] \notin StartedRecipes
    /\ (HookRunOver /\ hookRunner.err \in {"prepare", "run"}) =>
           StartedRecipes \cap RecipesAfter(hookRunner.idx) = {}

\* Hook 03 of eleven exited with an error: Run returned it after 01, 02 and
\* 03, with eight recipes left.
C21_Witness ==
    /\ buildProperties = PaddedHooks
    /\ failing = {"echo 3"}
    /\ HookRunOver
    /\ hookRunner.err = "run"
    /\ Started = <<"echo 1", "echo 2", "echo 3">>
    /\ Cardinality(RecipesAfter(hookRunner.idx)) = 8

NamesComputed == archiveName.nameA # <<>>

\* C22 as stated: the two names are the same when board, flags and core
\* folder are the same, and differ when the board, the flags or the core
\* folder, its contents included, differ.
C22_NameTellsInputsApart ==
    NamesComputed =>
        (archiveName.nameA = archiveName.nameB <=> archiveName.a = archiveName.b)

\* What the name is made from: the board with ':' and '=' turned into '_',
\* and the absolute path of the core folder followed by the flags.
NameKey(input) ==
    <<Replace(Replace(input.fqbn, <<":">>, <<"_">>), <<"=">>, <<"_">>),
      Abs(input.coreFolder.path) \o input.flags>>

\* C22: the two names are the same exactly when the boards are the same once
\* ':' and '=' are written as '_' and the absolute path of the core folder
\* followed by the flags is the same string; what is in the core folder plays
\* no part.
C22_NameTellsKeysApart ==
    NamesComputed =>
        (archiveName.nameA = archiveName.nameB
            <=> NameKey(archiveName.a) = NameKey(archiveName.b))

\* Two calls that differ only in what the core folder holds gave one name,
\* and another board gives another name.
C22_Witness ==
    /\ NamesComputed
    /\ archiveName.a.coreFolder.contents # archiveName.b.coreFolder.contents
    /\ archiveName.a.coreFolder.path = archiveName.b.coreFolder.path
    /\ archiveName.a.fqbn = <<"pkg", ":", "avr", ":", LongBoard>>
    /\ archiveName.a.fqbn = archiveName.b.fqbn
    /\ archiveName.a.flags = archiveName.b.flags
    /\ archiveName.nameA = archiveName.nameB

\* The second build of the core has returned, and the first one, a normal
\* build with a cache path, compiled both sources and returned the archive
\* of the build folder.
SecondBuildOver ==
    /\ stage = "CoreBuilder"
    /\ coreBuilds.n = 2
    /\ core.pc = "returned"
    /\ coreBuildCachePath
    /\ ~onlyUpdateCompilationDatabase
    /\ ~clean
    /\ coreBuilds.archives[1] = CoreArchive
    /\ \A source \in CoreSources : coreBuilds.compiledBefore[source] = 1

\* C23: the build that follows a normal build which compiled and archived
\* the core, with a cache path, finds the archive in the cache and returns
\* it without compiling a source of the core.
C23_SecondBuildUsesCache ==
    SecondBuildOver =>
        /\ Stat(diskBefore, TargetArchivedCore).stat = "ok"
        /\ core.archiveFile = TargetArchivedCore
        /\ compiled = coreBuilds.compiledBefore

ArchiverOver == stage = "CoreBuilder" /\ archiver.pc = "returned"

\* The archive was there when ArchiveCompiledFiles was called, and so was
\* every object, none of them newer than the archive.
Reusable ==
    /\ Stat(archiver.found, CoreArchive).stat = "ok"
    /\ \A i \in 1..Len(archiver.objectFiles) :
           /\ Stat(archiver.found, archiver.objectFiles[i]).stat = "ok"
           /\ Stat(archiver.found, archiver.objectFiles[i]).mtime
                  <= Stat(archiver.found, CoreArchive).mtime

\* The objects the archive recipe was run on by this call, in order.
Archived ==
    LET ran == SubSeq(executed, archiver.executedBefore + 1, Len(executed))
    IN  [i \in 1..Len(ran) |-> ran[i].command]

Needed(recipe) ==
    \/ /\ recipe = RECIPE_CPP_PATTERN
       /\ RunOver
    \/ /\ recipe = RECIPE_AR_PATTERN
       /\ ArchiverOver
       /\ ~onlyUpdateCompilationDatabase
       /\ ~Reusable

\* The stage has returned an error.
Fatal(recipe) ==
    \/ /\ recipe = RECIPE_CPP_PATTERN
       /\ cfPc = "failed"
       /\ returned.err \in CoreSources
       /\ core.pc = "returned" => core.err = returned.err
    \/ /\ recipe = RECIPE_AR_PATTERN
       /\ archiver.err = RECIPE_AR_PATTERN
       /\ core.pc = "returned" => core.err = RECIPE_AR_PATTERN

\* No command of the recipe was run, and none was recorded in the
\* compilation database.
NoCommand(recipe) ==
    \/ /\ recipe = RECIPE_CPP_PATTERN
       /\ \A source \in CoreSources :
              /\ compiled[source] = 0
              /\ compilationDatabase[source] = 0
    \/ /\ recipe = RECIPE_AR_PATTERN
       /\ \A i \in 1..Len(executed) : executed[i].recipe # RECIPE_AR_PATTERN

\* The pattern of ctags in the properties of the context.
CTagsPattern ==
    Get(SubTree(SubTree(buildProperties, "tools"), "ctags"), "pattern")

\* C26: when the pattern of the compile recipe or of the archive recipe is
\* absent or empty, the stage that comes to the recipe returns an error, and
\* no command of that recipe is run by the build; the same holds for the
\* ctags runner and the pattern of ctags.
C26_MissingRecipeIsFatal ==
    /\ \A recipe \in {RECIPE_CPP_PATTERN, RECIPE_AR_PATTERN} :
           (stage = "CoreBuilder" /\ Get(buildProperties, recipe) = "") =>
               /\ NoCommand(recipe)
               /\ Needed(recipe) => Fatal(recipe)
    /\ (stage = "ContainerAddPrototypes" /\ CTagsPattern = "") =>
           /\ executed = <<>>
           /\ addPrototypes.pc # "CTagsRunner" =>
                  /\ addPrototypes.pc = "returned"
                  /\ addPrototypes.err = "ctags pattern is missing"
                  /\ addPrototypes.Source = addPrototypes.sourceBefore

\* A platform without recipe.ar.pattern: the core was compiled, the archiver
\* returned the error and compileCore returned it.
C26_Witness ==
    /\ stage = "CoreBuilder"
    /\ Get(buildProperties, RECIPE_AR_PATTERN) = ""
    /\ core.pc = "returned"
    /\ core.err = RECIPE_AR_PATTERN
    /\ \A source \in CoreSources : compiled[source] > 0

\* ContainerAddPrototypes has returned without an error.
PrototypesAdded ==
    /\ stage = "ContainerAddPrototypes"
    /\ addPrototypes.pc = "returned"
    /\ addPrototypes.err = "nil"

\* No function of the sketch lacks a declaration.
AllDeclared ==
    \A i \in 1..Len(addPrototypes.tags) :
        addPrototypes.tags[i].kind = "function" =>
            \E j \in 1..Len(addPrototypes.tags) :
                /\ addPrototypes.tags[j].kind = "prototype"
                /\ addPrototypes.tags[j].name = addPrototypes.tags[i].name

\* C30: for a sketch in which every function is declared, and for one
\* without functions, the prototypes section is empty and the merged source
\* is what it was before the stage.
C30_NoPrototypesNoChange ==
    (PrototypesAdded /\ AllDeclared) =>
        /\ addPrototypes.PrototypesSection = <<>>
        /\ addPrototypes.Source = addPrototypes.sourceBefore

\* The sketch that declares setup before it defines it went through the
\* stage, with a line of insertion left in the context by an earlier run.
C30_Witness ==
    /\ PrototypesAdded
    /\ AllDeclared
    /\ \E i \in 1..Len(addPrototypes.tags) : addPrototypes.tags[i].kind = "function"
    /\ addPrototypes.PrototypesLineWhereToInsert = 2

\* C25: no step of the compile scheduler, the archiver, the hook runner, the
\* ctags runner and the helpers that rewrite the compiler flags changes the
\* build properties of the context.
C25_ContextPropertiesUnchanged == [][buildProperties' = buildProperties]_vars

\* The core was built unoptimized and archived: the clones hold the
\* rewritten flags and the files of the recipe, the map of the context does
\* not.
C25_Witness ==
    /\ stage = "CoreBuilder"
    /\ core.pc = "returned"
    /\ Get(clones[UnoptimizedMap], "compiler.cpp.flags") = "-O0 "
    /\ Get(clones[ExpandedMap], "compiler.cpp.flags") = "-O0  -DSYSPROGS"
    /\ Get(clones[ArchiverMap], "object_file") = ObjectFile("core/x.cpp")
    /\ Get(clones[ArchiverMap], "archive_file") = "core.a"
    /\ Get(buildProperties, "compiler.cpp.flags") = "-Os -flto"
    /\ Get(buildProperties, "object_file") = ""
    /\ Get(buildProperties, "archive_file") = ""

\* The iteration that failed ended at an include no library provides.
UnresolvedFailure ==
    /\ pc = "failed"
    /\ sideEffects.preprocRuns + (IF sideEffects.fromCache THEN 1 ELSE 0) > 0

\* C27: when the include that no library provides was read from the journal
\* the preprocessor is run once; if that run succeeds the discovery fails with
\* "Internal error in cache" and nothing is written to os.Stderr, otherwise
\* the stderr of that run is written and the discovery fails.  When the name
\* came from a run of the preprocessor, that run is the only one and its
\* stderr is written.
C27_RerunOnlyForCachedName ==
    UnresolvedFailure =>
        /\ sideEffects.preprocRuns = 1
        /\ [file |-> sourceFile, unchanged |-> unchanged] \in ppLog
        /\ result \in {"Internal error in cache", "preprocessor", "unresolved include"}
        /\ cacheFile = AbsentFile
        /\ IF sideEffects.fromCache
           THEN /\ unchanged
                /\ (result = "Internal error in cache") = (sideEffects.stderr = <<>>)
                /\ result # "Internal error in cache" =>
                       /\ Len(sideEffects.stderr) = 1
                       /\ (result = "preprocessor") =
                              (sideEffects.stderr = <<SpawnFailure.stderr>>)
           ELSE /\ result = "unresolved include"
                /\ Len(sideEffects.stderr) = 1
                /\ sideEffects.stderr[1].kind = "No such file"

\* A name read from the journal was not resolved, and the preprocessor, run
\* for the error, found nothing missing.
C27_Witness ==
    /\ UnresolvedFailure
    /\ sideEffects.fromCache
    /\ sideEffects.preprocRuns = 1
    /\ result = "Internal error in cache"

\* The entry the iteration at hand has just passed to ExpectEntry.
LastObserved == observedLog[Len(observedLog)]

\* C28: a file that is not up to date does not invalidate the journal by
\* itself.  When the entry made from the preprocessor's answer for it reads
\* like the journal's next entry, the journal stays valid, keeps its entries
\* and moves on by one; and an iteration on an unchanged file with the journal
\* valid takes its include from the journal and runs no preprocessor.
C28_ChangedFileKeepsJournal ==
    [][(pc = "scan" /\ cache.valid /\ pc' # "failed") =>
          /\ unchanged => ppLog' = ppLog
          /\ ( /\ ~unchanged
               /\ cache.next < Len(cache.entries)
               /\ EntryString(LastObserved') = EntryString(CacheNext(cache)) )
             => /\ [file |-> sourceFile, unchanged |-> FALSE] \in ppLog'
                /\ cache'.valid
                /\ cache'.entries = cache.entries
                /\ cache'.next = cache.next + 1]_vars

\* A run ended with the journal valid in which the preprocessor was run on
\* the changed sketch only, and the library files queued after it were served
\* from the journal.
C28_Witness ==
    /\ pc = "done"
    /\ cache.valid
    /\ cacheFile = prevFile
    /\ ppLog = {[file |-> MergedFile, unchanged |-> FALSE]}
    /\ \E i, j \in 1..Len(observedLog) :
          /\ i < j
          /\ observedLog[i].Sourcefile = MergedFile
          /\ observedLog[j].Sourcefile \notin {MergedFile, NilPath}

\* C29: when the discovery has ended without an error, a journal that stayed
\* valid has left the entries of includes.cache as the run found them, the
\* one call on the file being Chtimes; a journal that was invalidated has had
\* the file written with the entries held in memory, and with nothing else.
C29_ValidTouchedElseOverwritten ==
    pc = "done" =>
        IF cache.valid
        THEN /\ cacheFile = prevFile
             /\ cacheFile.state = "ok"
             /\ sideEffects.fileCall = "Chtimes"
        ELSE /\ cacheFile = [state |-> "ok", entries |-> cache.entries]
             /\ sideEffects.fileCall = "WriteFile"

\* A run found a journal on disk, invalidated it, and left another one.
C29_Witness ==
    /\ pc = "done"
    /\ ~cache.valid
    /\ prevFile.state = "ok"
    /\ cacheFile.entries # prevFile.entries
    /\ cacheFile.entries = cache.entries
    /\ sideEffects.fileCall = "WriteFile"

\* The steps at which a cancellation would be looked at: a source is handed
\* to a job runner, a hook recipe is started, an iteration of the discovery
\* begins on the next file of the queue.
JobEnqueued == Len(sent') > Len(sent)

HookStarted == hookRunner.pc = "start" /\ hookRunner'.pc = "wait"

IterationBegun == pc = "loop" /\ pc' = "expectFile"

\* C31: once a cancellation is requested no further compile job is enqueued,
\* no further hook recipe is started and no further iteration of the
\* discovery begins.
C31_NothingStartsAfterCancel ==
    [][cancelRequested => ~(JobEnqueued \/ HookStarted \/ IterationBegun)]_vars

\* No two files of a queue are the same file.
Unique(q) == \A i, j \in 1..Len(q) : q[i] = q[j] => i = j

\* C32: the work list is a FIFO queue without duplicates.  It never holds
\* two files of the same origin and relative path; a Push of a file it holds
\* leaves it as it was and any other Push appends the file; Pop returns the
\* head, so that the files popped, followed by the files still queued, are
\* the files in the order in which they were appended.
C32_UniqueFifo ==
    stage = "UniqueSourceFileQueue" =>
        /\ Unique(queue)
        /\ queueLog.popped \o queue = queueLog.appended
        /\ queueLog.call = "Push" =>
               IF \E i \in 1..Len(queueLog.before) :
                      /\ queueLog.before[i].Origin = queueLog.value[1].Origin
                      /\ queueLog.before[i].RelativePath =
                             queueLog.value[1].RelativePath
               THEN queue = queueLog.before
               ELSE queue = queueLog.before \o queueLog.value
        /\ queueLog.call = "Pop" =>
               /\ queueLog.value = <<Head(queueLog.before)>>
               /\ queue = Tail(queueLog.before)

\* The place of a file's first push among the files appended.
FirstPush(file) ==
    CHOOSE i \in 1..Len(queueLog.appended) :
        /\ queueLog.appended[i] = file
        /\ \A j \in 1..(i - 1) : queueLog.appended[j] # file

\* C32 as stated: the queue holds no file twice, and the files come out of
\* Pop in the order of their first push, whatever was pushed in between.
C32_PoppedInFirstPushOrder ==
    stage = "UniqueSourceFileQueue" =>
        /\ Unique(queue)
        /\ \A i, j \in 1..Len(queueLog.popped) :
               i < j => FirstPush(queueLog.popped[i]) <= FirstPush(queueLog.popped[j])

\* A file was pushed while the queue held it, after two files of the same
\* relative path and different origins were queued and one was popped.
C32_Witness ==
    /\ stage = "UniqueSourceFileQueue"
    /\ queueLog.call = "Push"
    /\ queue = queueLog.before
    /\ queueLog.value = <<SourceFile("sketch", "t.cpp")>>
    /\ queueLog.popped = <<SourceFile("A", "a.cpp")>>
    /\ queue = <<SourceFile("A2", "a.cpp"), SourceFile("sketch", "t.cpp")>>

\* C33: after a successful run the journal, in memory and on disk, is the
\* sequence of entries this run has observed, in order; nothing of an older
\* journal is left behind them.
C33_JournalIsWhatWasObserved ==
    pc = "done" =>
        /\ cache.entries = observedLog
        /\ cacheFile = [state |-> "ok", entries |-> observedLog]

\* A run ended that observed fewer entries than the journal it found held,
\* each of them as the journal had it: the entries behind them are gone from
\* the journal in memory and from the file.
C33_Witness ==
    /\ pc = "done"
    /\ prevFile.state = "ok"
    /\ Len(prevFile.entries) > Len(observedLog)
    /\ SubSeq(prevFile.entries, 1, Len(observedLog)) = observedLog
    /\ cache.entries = observedLog
    /\ cacheFile.entries = observedLog

\* C34: findIncludesUntilDone on a file of a fully precompiled library leaves
\* the journal as it was: its validity, its entries and its cursor.
C34_PrecompiledFileKeepsJournal ==
    [][(pc = "expectFile" /\ FullyPrecompiled(sourceFile)) => cache' = cache]_vars

\* C35: ObjFileIsUpToDate returns a boolean or an error for every contents of
\* the dependency file; it reads no row that is not there.
C35_NoRowOutOfRange ==
    upToDateResult.result \in {"none", "true", "false", "error"}

\* C36: the cursor never passes the end of the entries; and when the include
\* name of an unchanged file is about to be read from a valid journal, as
\* well as when ExpectEntry is about to compare, the journal is either
\* invalid or has an entry at the cursor.  For the include name that entry is
\* about the file at hand: ExpectFile has seen to it.
C36_NextWithinEntries ==
    /\ cache.next <= Len(cache.entries)
    /\ (pc = "scan" /\ UseCache(unchanged, cache)) =>
           /\ cache.valid
           /\ cache.next < Len(cache.entries)
           /\ cache.entries[cache.next + 1].Sourcefile = sourceFile

\* The include name of an unchanged library file is about to be read from
\* the last entry of a valid journal.
C36_Witness ==
    /\ pc = "scan"
    /\ UseCache(unchanged, cache)
    /\ Origin(sourceFile) \in Libraries
    /\ cache.next = Len(cache.entries) - 1

\* The include path the preprocessor is given for the file at hand, and what
\* a run of it on that file says.
IncludesForScan ==
    IF Origin(sourceFile) \in Libraries /\ UtilityDir(Origin(sourceFile)) # NilPath
    THEN Append(includeFolders, UtilityDir(Origin(sourceFile)))
    ELSE includeFolders

PreprocessorNow == PreprocResult(FileIncludes(sourceFile), IncludesForScan)

\* The iteration ends with the terminal entry of the file at hand.
TerminalRecorded ==
    /\ pc = "scan"
    /\ pc' = "loop"
    /\ LastObserved' = includeCacheEntry(sourceFile, "", NilPath)

\* C37: the terminal entry of a source is recorded only when the valid
\* journal says that it has no missing include or when the preprocessor has
\* exited successfully on it; never after a run that exited non-zero.
C37_TerminalOnlyAfterSuccess ==
    [][TerminalRecorded =>
          \/ UseCache(unchanged, cache)
          \/ PreprocessorNow.err = "nil"]_vars

\* C38: within a run no source file is popped twice, and no file that was
\* popped is in the queue again.
C38_ScannedAtMostOnce ==
    /\ Unique(sideEffects.popped)
    /\ \A i \in 1..Len(queue) :
           ~sliceContainsSourceFile(sideEffects.popped, queue[i])

\* A run has ended in which the merged sketch, pushed a second time by the
\* listing of the sketch folder, and the source of a library that two files
\* include were popped once each.
C38_Witness ==
    /\ pc = "done"
    /\ Len(sideEffects.popped) >= 4
    /\ \E i, j \in 1..Len(observedLog) :
          /\ i # j
          /\ observedLog[i].Include = "B.h"
          /\ observedLog[j].Sourcefile = "libraries/B/src/b.cpp"
    /\ \E i \in 1..Len(sideEffects.popped) :
          sideEffects.popped[i] = "libraries/B/src/b.cpp"

\* The include paths of the entries of a journal that are not terminal
\* entries, in order; and its entries with an include name.
IncludePathsOf(entries) ==
    LET kept == SelectSeq(entries, LAMBDA e : e.Includepath # NilPath)
    IN  [i \in 1..Len(kept) |-> kept[i].Includepath]

WithInclude(entries) == SelectSeq(entries, LAMBDA e : e.Include # "")

\* C39: when a discovery has ended without an error, ctx.IncludeFolders is
\* the include paths of the journal's entries that are not terminal, in
\* order: the core, the variant if there is one, then the source root of
\* each imported library; and there are as many imported libraries as
\* entries with an include name.
C39_FoldersMatchJournal ==
    pc = "done" =>
        /\ includeFolders = IncludePathsOf(cache.entries)
        /\ includeFolders[1] = CorePath
        /\ hasVariant => includeFolders[2] = VariantPath
        /\ Len(importedLibraries) = Len(WithInclude(cache.entries))
        /\ \A i \in 1..Len(importedLibraries) :
               /\ WithInclude(cache.entries)[i].Includepath =
                      SourceDir(importedLibraries[i])
               /\ includeFolders[Len(includeFolders) - Len(importedLibraries) + i] =
                      SourceDir(importedLibraries[i])

\* A discovery for a board with a variant has ended with two libraries or
\* more imported and terminal entries between their entries.
C39_Witness ==
    /\ pc = "done"
    /\ hasVariant
    /\ Len(importedLibraries) >= 2
    /\ Len(cache.entries) > Len(includeFolders) + 1
    /\ includeFolders = IncludePathsOf(cache.entries)

\* A call of compileFilesWithRecipe is under way: from the spawning of the
\* runners to the return of wg.Wait().
PoolRunning == feeder.pc # "off"

\* C40: the pool of job runners ends.  Whatever the number of runners, the
\* sources and the jobs that fail, a call under way comes to the return of
\* wg.Wait(); the queue is closed at one place, once, by the feeder after
\* its loop; and when wg.Wait() returns the queue is closed and every runner
\* that was spawned has left its loop.
C40_PoolTerminates ==
    /\ PoolRunning ~> ~PoolRunning
    /\ [][closed' # closed =>
             \/ ~closed /\ feeder.pc = "check" /\ feeder'.pc = "wait"
             \/ closed /\ feeder.pc = "wait" /\ feeder'.pc = "off"]_vars
    /\ [][(feeder.pc = "wait" /\ feeder'.pc = "off") =>
             /\ closed
             /\ \A w \in Workers :
                    worker[w].pc = IF w <= JobRunners THEN "exited" ELSE "off"]_vars

\* A call with the host's number of runners has returned an error: the
\* feeder had left its loop before the last source, and the runners are gone.
C40_Witness ==
    /\ stage = "SketchBuilder"
    /\ jobs = 0
    /\ cfPc = "failed"
    /\ ~PoolRunning
    /\ Len(sent) < Len(findFilesInFolder("sketch", ".cpp"))
    /\ \A w \in Workers : worker[w] = WorkerOff
====
